---- MODULE Spec2Model ----
(***************************************************************************)
(* A model of obsidian-folder-git's RepoRegistry (src/src/repoRegistry.ts) *)
(* and of the callers that drive it: the plugin's load/unload, the         *)
(* settings tab and the add-repository modal.                              *)
(*                                                                         *)
(* JavaScript strings are sequences of one-character strings, so that      *)
(* startsWith, concatenation and template strings are computed, not        *)
(* assumed.  Objects that the code shares by reference (FolderRepoConfig)  *)
(* live in a heap, `configs`, and are named by their index in it.          *)
(* Every `await` of the code is a suspension point: an asynchronous call   *)
(* occupies a slot of `calls` from its first await to its return, and its  *)
(* `pc` names the external-process command it is waiting for.              *)
(***************************************************************************)
EXTENDS Integers, Sequences, FiniteSets, TLC

(* ------------------------------ bounds --------------------------------- *)

\* configurations in the persisted settings when the plugin loads
MaxInitRepos == 2
\* FolderRepoConfig objects that ever exist (loaded ones and modal-made ones)
MaxConfigs == 3
\* asynchronous registry calls suspended at the same time
MaxCalls == 2
\* largest auto-commit interval (minutes) a configuration carries
MaxInterval == 1
\* file records in one answer of `git status`
MaxFiles == 2
\* longest .gitignore (in characters) addToGitignore is let to write
MaxIgnoreLen == 6

(* ------------------------------ strings -------------------------------- *)

StartsWith(s, p) == Len(p) <= Len(s) /\ SubSeq(s, 1, Len(p)) = p

EmptyString == <<>>

Slash == <<"/">>

\* FileSystemAdapter.getBasePath(): the vault's directory on disk
vaultBasePath == <<"/", "v">>

\* app.vault.configDir
configDir == <<".", "o">>

\* the vault-relative folders a repository is configured for ("" = vault root)
FolderIds == {EmptyString, <<"a">>}

resolveAbsolutePath(folderPath) ==
    IF folderPath = EmptyString \/ folderPath = Slash
    THEN vaultBasePath
    ELSE vaultBasePath \o Slash \o folderPath

(* --------------------------- the state --------------------------------- *)

VARIABLES
    configs,        \* heap of FolderRepoConfig objects; a config is its index
    settingsRepos,  \* plugin.settings.repos: sequence of config indices
    githubToken,    \* plugin.settings.githubToken
    githubUsername, \* plugin.settings.githubUsername
    repos,          \* RepoRegistry.repos: insertion-ordered Map, as entries
    timers,         \* the interval timers that are armed (setInterval ids)
    timerCfg,       \* per timer ever created: the config its closure captured
    unloaded,       \* onunload has run
    calls,          \* the suspended asynchronous calls, by slot
    settled,        \* what the call that ended in the last step came to
    failedTimers,   \* timers one of whose firings ended in the catch clause
    credFile,       \* content of the .git-credentials file, or NoFile
    helper,         \* per directory: the local credential.helper entry
    credStaged,     \* directories whose index holds the credential file
    credCommitted,  \* directories whose history holds the credential file
    worktree,       \* the file records `git status` reports
    gitignore,      \* the .gitignore of each working directory, or NoFile
    blobs           \* content of the view's file at HEAD, in the index, on disk

vars == <<configs, settingsRepos, githubToken, githubUsername, repos, timers,
          timerCfg, unloaded, calls, settled, failedTimers, credFile, helper,
          credStaged, credCommitted, worktree, gitignore, blobs>>

settingsVars == <<githubToken, githubUsername>>
gitVars == <<credFile, helper, credStaged, credCommitted, worktree, gitignore, blobs>>

NoTimer == 0
NoFile == <<"ENOENT">>
NoHelper == [helper |-> "unset", file |-> EmptyString]
NoInstance == [config |-> 0, absolutePath |-> EmptyString, autoCommitTimer |-> NoTimer]
Idle == [kind |-> "idle"]
\* a call that resolved to undefined, or rejected
NoValue == [value |-> "undefined"]


(* ---------------------- Map<string, RepoInstance> ---------------------- *)

MapKeys(m) == [i \in 1..Len(m) |-> m[i].key]

MapHas(m, k) == \E i \in 1..Len(m) : m[i].key = k

MapGet(m, k) ==
    IF MapHas(m, k)
    THEN m[CHOOSE i \in 1..Len(m) : m[i].key = k].inst
    ELSE NoInstance

\* (mutant of MapSet) every set adds an entry, as a list of instances would
MapSetAppends(m, k, v) == Append(m, [key |-> k, inst |-> v])

\* Map.prototype.set: an existing key keeps its place and gets the new value
MapSet(m, k, v) ==
    IF MapHas(m, k)
    THEN [i \in 1..Len(m) |-> IF m[i].key = k THEN [key |-> k, inst |-> v] ELSE m[i]]
    ELSE Append(m, [key |-> k, inst |-> v])

MapDelete(m, k) == SelectSeq(m, LAMBDA e : e.key # k)

getAllPaths == MapKeys(repos)

(* ------------------------------- Init ---------------------------------- *)

\* the token of a commit message template
DateToken == <<"{", "{", "d", "a", "t", "e", "}", "}">>

\* DEFAULT_REPO_CONFIG.commitMessageTemplate, "vault backup: {{date}}"
DefaultTemplate ==
    <<"v", "a", "u", "l", "t", " ", "b", "a", "c", "k", "u", "p", ":", " ">> \o DateToken

FolderRepoConfig(folderPath, remoteName, autoPush, autoCommitInterval) ==
    [folderPath |-> folderPath, remoteName |-> remoteName,
     autoPush |-> autoPush, autoCommitInterval |-> autoCommitInterval,
     commitMessageTemplate |-> DefaultTemplate]

origin == <<"o", "r", "i", "g", "i", "n">>

\* persisted repository lists: at most MaxInitRepos configurations of distinct folders
PersistedRepos(cfgs) ==
    {s \in UNION {[1..n -> cfgs] : n \in 0..MaxInitRepos} :
        \A i, j \in DOMAIN s : i # j => s[i].folderPath # s[j].folderPath}

\* no call ended in the last step
NoOutcome ==
    [kind |-> "none", folder |-> EmptyString, files |-> <<>>, last |-> "none",
     result |-> "none", value |-> NoValue, registered |-> FALSE,
     arg |-> EmptyString, res |-> <<>>, ops |-> <<>>, notices |-> <<>>]

\* the file the source control view acts on is committed and unchanged
CleanBlobs == [head |-> <<"h">>, index |-> <<"h">>, working |-> <<"h">>]

\* the working directories of FolderIds
WorkingDirs == {resolveAbsolutePath(f) : f \in FolderIds}

\* no working directory has a .gitignore
NoIgnoreFiles == [d \in WorkingDirs |-> NoFile]

\* initialize() runs to its first await: addRepo of the first configuration,
\* suspended at git.checkIsRepo()
InitializeCall(i, res) ==
    [kind |-> "initialize", i |-> i, pc |-> "checkIsRepo", res |-> res]

\* the state after onload's loadSettings and initialize()'s first step, for
\* the persisted lists `lists`
InitLoaded(lists, tokens, usernames) ==
    /\ configs \in lists
    /\ settingsRepos = [i \in 1..Len(configs) |-> i]
    /\ githubToken \in tokens
    /\ githubUsername \in usernames
    /\ repos = <<>>
    /\ timers = {}
    /\ timerCfg = <<>>
    /\ unloaded = FALSE
    /\ calls = [s \in 1..MaxCalls |->
                  IF s = 1 /\ Len(configs) > 0 THEN InitializeCall(1, <<>>) ELSE Idle]
    /\ settled = NoOutcome
    /\ failedTimers = {}
    /\ credFile = NoFile
    /\ helper = [d \in {resolveAbsolutePath(f) : f \in FolderIds} |-> NoHelper]
    /\ credStaged = {}
    /\ credCommitted = {}

InitRegistry(cfgs, tokens, usernames) ==
    InitLoaded(PersistedRepos(cfgs), tokens, usernames)

InitWith(cfgs, tokens, usernames) ==
    /\ InitRegistry(cfgs, tokens, usernames)
    /\ worktree = <<>>
    /\ gitignore = NoIgnoreFiles
    /\ blobs = CleanBlobs

RegistryConfigs ==
    {FolderRepoConfig(f, origin, TRUE, n) : f \in FolderIds, n \in 0..MaxInterval}

Init == InitWith(RegistryConfigs, {EmptyString}, {EmptyString})

(* ------------------------- slots of `calls` ---------------------------- *)

Slots == 1..MaxCalls

FreeSlot(s) == calls[s] = Idle /\ \A r \in 1..(s - 1) : calls[r] # Idle

Initializing == \E s \in Slots : calls[s].kind = "initialize"

\* the user interface (commands, settings tab, modal) exists between the end
\* of onload's initialize() and onunload
UiReady == ~Initializing /\ ~unloaded

\* the add-repository modal is open and its Add button was pressed; a modal
\* covers the settings tab and the views until it closes
ModalOpen == \E s \in Slots : calls[s].kind = "modal"

(* ------------------------------ addRepo -------------------------------- *)

\* what a synchronous registry call, or an addRepo, came to
Done(kind, folder, result) ==
    [kind |-> kind, folder |-> folder, files |-> <<>>,
     last |-> "none", result |-> result, value |-> NoValue, registered |-> FALSE,
     arg |-> EmptyString, res |-> <<>>, ops |-> <<>>, notices |-> <<>>]

\* the config an addRepo call suspended in slot s was given
AddRepoConfig(s) ==
    IF calls[s].kind = "initialize" THEN settingsRepos[calls[s].i] ELSE calls[s].cfg

\* addRepo after `await git.checkIsRepo()` answered true: the instance, its
\* timer when the interval is positive, and repos.set
AddRepoRegister(c) ==
    LET folderPath == configs[c].folderPath
        timed == configs[c].autoCommitInterval > 0
        t == Len(timerCfg) + 1
        instance == [config |-> c,
                     absolutePath |-> resolveAbsolutePath(folderPath),
                     autoCommitTimer |-> IF timed THEN t ELSE NoTimer]
    IN /\ timers' = IF timed THEN timers \cup {t} ELSE timers
       /\ timerCfg' = IF timed THEN Append(timerCfg, c) ELSE timerCfg
       /\ repos' = MapSet(repos, folderPath, instance)

\* (mutant of InitializeStep) the instance is registered before the check's
\* answer is looked at
InitializeStepRegistersFirst(s, isRepo) ==
    /\ calls[s].kind = "initialize"
    /\ calls[s].pc = "checkIsRepo"
    /\ AddRepoRegister(AddRepoConfig(s))
    /\ calls' = [calls EXCEPT ![s] =
                   IF calls[s].i < Len(settingsRepos)
                   THEN InitializeCall(calls[s].i + 1, Append(calls[s].res, IF isRepo THEN "ok" ELSE "failed"))
                   ELSE Idle]
    /\ settled' = [Done("addRepo", configs[AddRepoConfig(s)].folderPath,
                         IF isRepo THEN "ok" ELSE "threw")
                      EXCEPT !.value = Append(calls[s].res, IF isRepo THEN "ok" ELSE "failed")]
    /\ UNCHANGED <<configs, settingsRepos, settingsVars, unloaded, failedTimers, gitVars>>

\* initialize(): addRepo of settings.repos[i] returned or threw (the throw is
\* caught and logged); the loop goes on to the next configuration.  The
\* outcome carries how each addRepo of the loop has ended so far.
InitializeStep(s, isRepo) ==
    /\ calls[s].kind = "initialize"
    /\ calls[s].pc = "checkIsRepo"
    /\ IF isRepo
       THEN AddRepoRegister(AddRepoConfig(s))
       ELSE UNCHANGED <<repos, timers, timerCfg>>
    /\ calls' = [calls EXCEPT ![s] =
                   IF calls[s].i < Len(settingsRepos)
                   THEN InitializeCall(calls[s].i + 1, Append(calls[s].res, IF isRepo THEN "ok" ELSE "failed"))
                   ELSE Idle]
    /\ settled' = [Done("addRepo", configs[AddRepoConfig(s)].folderPath,
                         IF isRepo THEN "ok" ELSE "threw")
                      EXCEPT !.value = Append(calls[s].res, IF isRepo THEN "ok" ELSE "failed")]
    /\ UNCHANGED <<configs, settingsRepos, settingsVars, unloaded, failedTimers, gitVars>>

(* ------------------------- removeRepo, destroy ------------------------- *)

removeRepo(folderPath) ==
    LET instance == MapGet(repos, folderPath)
    IN /\ timers' = IF instance.autoCommitTimer # NoTimer
                    THEN timers \ {instance.autoCommitTimer}
                    ELSE timers
       /\ repos' = MapDelete(repos, folderPath)

\* the settings tab's Remove button: removeRepo, then the configuration's
\* folder is filtered out of settings.repos
RemoveButton(c) ==
    /\ UiReady /\ ~ModalOpen
    /\ c \in {settingsRepos[i] : i \in 1..Len(settingsRepos)}
    /\ removeRepo(configs[c].folderPath)
    /\ settingsRepos' = SelectSeq(settingsRepos,
                            LAMBDA r : configs[r].folderPath # configs[c].folderPath)
    /\ settled' = Done("removeRepo", configs[c].folderPath,
                        IF MapHas(repos, configs[c].folderPath) THEN "ok" ELSE "absent")
    /\ UNCHANGED <<configs, settingsVars, timerCfg, unloaded, calls, failedTimers, gitVars>>

destroy ==
    /\ timers' = timers \ {repos[i].inst.autoCommitTimer : i \in 1..Len(repos)}
    /\ repos' = <<>>

\* FolderGitPlugin.onunload
Onunload ==
    /\ ~unloaded
    /\ destroy
    /\ unloaded' = TRUE
    /\ settled' = Done("destroy", EmptyString, "ok")
    /\ UNCHANGED <<configs, settingsRepos, settingsVars, timerCfg, calls, failedTimers, gitVars>>

(* ----------------------------- settings tab ---------------------------- *)

\* the auto-commit interval field: parseInt, kept only when it is a number >= 0
SetAutoCommitInterval(c, num) ==
    /\ UiReady /\ ~ModalOpen
    /\ c \in {settingsRepos[i] : i \in 1..Len(settingsRepos)}
    /\ num >= 0
    /\ configs' = [configs EXCEPT ![c].autoCommitInterval = num]
    /\ settled' = NoOutcome
    /\ UNCHANGED <<settingsRepos, settingsVars, repos, timers, timerCfg, unloaded,
                   calls, failedTimers, gitVars>>

\* the personal access token field: every change is stored, trimmed
SetGithubToken(value) ==
    /\ UiReady /\ ~ModalOpen
    /\ githubToken' = value
    /\ settled' = NoOutcome
    /\ UNCHANGED <<configs, settingsRepos, githubUsername, repos, timers, timerCfg,
                   unloaded, calls, failedTimers, gitVars>>

\* the Validate button after `await gh.validateToken()`: the user name is
\* the login the hosting provider answered, or "" when the token was refused
ValidateReturn(ok, login) ==
    /\ UiReady /\ ~ModalOpen
    /\ githubUsername' = IF ok THEN login ELSE EmptyString
    /\ settled' = NoOutcome
    /\ UNCHANGED <<configs, settingsRepos, githubToken, repos, timers, timerCfg,
                   unloaded, calls, failedTimers, gitVars>>

(* ---------------------- asynchronous registry calls ------------------- *)

\* a call of a registry method on `folder`; inst is the instance it looked up
\* when it started, pinst the one push/pull/configureCredentials looked up,
\* remotes what getRemotes answered while configureCredentials goes by it,
\* tracking and current what push's status query answered, args what push
\* handed to git.push, arg the path an ignore-list method was called with or
\* the message handed to git.commit, now the clock reading autoCommit took,
\* notices the notices the view showed during the call
Call(kind, folder, inst) ==
    [kind |-> kind, folder |-> folder, inst |-> inst, pc |-> "start",
     ops |-> <<>>, res |-> <<>>, timer |-> NoTimer, refire |-> FALSE,
     files |-> <<>>, pinst |-> NoInstance, tok |-> EmptyString, usr |-> EmptyString,
     remotes |-> <<>>, found |-> EmptyString, cfg |-> 0, url |-> EmptyString, mode |-> "none",
     tracking |-> FALSE, current |-> EmptyString, args |-> <<>>, value |-> NoValue,
     arg |-> EmptyString, now |-> EmptyString, notices |-> <<>>]

\* the call hands `op` to the external process and awaits it at `pc`
IssueAs(c, pc, op) == [c EXCEPT !.pc = pc, !.ops = Append(@, op)]
Issue(c, cmd) == IssueAs(c, cmd, cmd)
\* the awaited command came back
Got(c, ok) == [c EXCEPT !.res = Append(@, IF ok THEN "ok" ELSE "failed")]
Return(c) == [c EXCEPT !.pc = "returned"]
Throw(c) == [c EXCEPT !.pc = "threw"]
Ended(c) == c.pc \in {"returned", "threw"}

\* the source control view's Commit and Commit-all buttons
ViewActions == {"commitChanges", "commitAll"}

\* the notices a call showed; the view's catch clauses report a failure as a
\* failed push once the commit was reported, as a failed commit before
Notices(c) ==
    IF c.kind \in ViewActions /\ c.pc = "threw"
    THEN Append(c.notices, IF c.notices = <<>> THEN "Commit failed"
                           ELSE "Commit succeeded, but push failed")
    ELSE c.notices

\* (mutant of Outcome) autoCommit without its catch clause
OutcomeUncaught(c) ==
    [kind |-> c.kind, folder |-> c.folder, files |-> c.files,
     last |-> IF c.ops = <<>> THEN "none" ELSE c.ops[Len(c.ops)],
     result |-> IF c.pc = "returned" THEN "ok" ELSE "threw",
     value |-> IF c.pc = "returned" THEN c.value ELSE NoValue,
     registered |-> c.inst # NoInstance,
     arg |-> c.arg, res |-> c.res, ops |-> c.ops, notices |-> Notices(c)]

\* what remains of a call once it has ended; autoCommit's catch clause turns
\* a throw into a logged error and a normal return; registered tells whether
\* the call's `this.repos.get(folderPath)` found an instance, res how each
\* command it awaited came back
Outcome(c) ==
    [kind |-> c.kind, folder |-> c.folder, files |-> c.files,
     last |-> IF c.ops = <<>> THEN "none" ELSE c.ops[Len(c.ops)],
     result |-> IF c.pc = "returned" THEN "ok"
                ELSE IF c.kind \in {"autoCommit"} \cup ViewActions THEN "caught"
                ELSE "threw",
     value |-> IF c.pc = "returned" THEN c.value ELSE NoValue,
     registered |-> c.inst # NoInstance,
     arg |-> c.arg, res |-> c.res, ops |-> c.ops, notices |-> Notices(c)]

\* autoCommit's catch clause: console.error, nothing else
AutoCommitCatch(c) == failedTimers \cup {c.timer}

\* slot s continues as c: it stays suspended, or the call ends.  The modal
\* pushes its config to settings.repos when every step before succeeded.
Settle(s, c) ==
    /\ calls' = [calls EXCEPT ![s] = IF Ended(c) THEN Idle ELSE c]
    /\ settled' = IF Ended(c) THEN Outcome(c) ELSE NoOutcome
    /\ failedTimers' = IF c.kind = "autoCommit" /\ c.pc = "threw"
                       THEN AutoCommitCatch(c)
                       ELSE failedTimers
    /\ settingsRepos' = IF c.kind = "modal" /\ c.pc = "returned"
                        THEN Append(settingsRepos, c.cfg)
                        ELSE settingsRepos

\* a call runs to its first await and takes a slot, or ends before any await
Start(s, c) ==
    /\ IF Ended(c)
       THEN settled' = Outcome(c) /\ UNCHANGED calls
       ELSE FreeSlot(s) /\ calls' = [calls EXCEPT ![s] = c] /\ settled' = NoOutcome
    /\ UNCHANGED failedTimers

Awaiting(s, kinds, pc) == calls[s].kind \in kinds /\ calls[s].pc = pc

(* ----------------------- configureCredentials, push -------------------- *)

Under(path, dir) == StartsWith(path, dir \o Slash)

https == <<"h", "t", "t", "p", "s", ":", "/", "/">>

credPath ==
    vaultBasePath \o Slash \o configDir \o
    <<"/", "p", "l", "u", "g", "i", "n", "s", "/", "o", "b", "s", "i", "d", "i", "a", "n",
      "-", "f", "o", "l", "d", "e", "r", "-", "g", "i", "t", "/", ".", "g", "i", "t", "-",
      "c", "r", "e", "d", "e", "n", "t", "i", "a", "l", "s">>

credLine(username, token) ==
    https \o username \o <<":">> \o token \o
    <<"@", "g", "i", "t", "h", "u", "b", ".", "c", "o", "m", "\n">>

\* (mutant of writeFileSync) the data is added to what the file holds
appendFileSync(file, data) == IF file = NoFile THEN data ELSE file \o data

\* (mutant of writeFileSync) the data goes over the head of what the file
\* holds, the rest of a longer file stays
writeWithoutTruncate(file, data) ==
    IF file = NoFile \/ Len(file) <= Len(data) THEN data
    ELSE data \o SubSeq(file, Len(data) + 1, Len(file))

\* fs.writeFileSync(credPath, data): the file holds the data and nothing else
writeFileSync(file, data) == data

\* the value of the local credential.helper entry
credentialHelper == [helper |-> "store", file |-> credPath]

\* what the caller of configureCredentials does when it returns
AfterConfigureCredentials(c) ==
    CASE c.kind \in {"autoCommit", "push"} \cup ViewActions ->
            IssueAs(c, "pushStatus", "status")
      [] c.kind = "pull" -> Issue(c, "pull")
      [] OTHER -> Return(c)

\* configureCredentials up to its first await, git.getRemotes(true); m is
\* this.repos
EnterConfigureCredentials(c, m) ==
    IF githubToken = EmptyString \/ githubUsername = EmptyString
    THEN AfterConfigureCredentials(c)
    ELSE IF ~MapHas(m, c.folder)
    THEN AfterConfigureCredentials(c)
    ELSE Issue([c EXCEPT !.tok = githubToken, !.usr = githubUsername,
                         !.pinst = MapGet(m, c.folder)], "getRemotes")

\* (mutant of EnterPush) push and pull go on without configureCredentials
EnterPushUnconfigured(c) ==
    IF ~MapHas(repos, c.folder)
    THEN Throw(c)
    ELSE AfterConfigureCredentials([c EXCEPT !.pinst = MapGet(repos, c.folder)])

\* push and pull up to their first await
EnterPush(c) ==
    IF ~MapHas(repos, c.folder)
    THEN Throw(c)
    ELSE EnterConfigureCredentials([c EXCEPT !.pinst = MapGet(repos, c.folder)], repos)

\* remotes.find(r => r.name === (config.remoteName || "origin"))
FindRemote(remotes, remoteName) ==
    LET name == IF remoteName = EmptyString THEN origin ELSE remoteName
        hits == {i \in 1..Len(remotes) : remotes[i].name = name}
    IN IF hits = {} THEN 0 ELSE CHOOSE i \in hits : \A j \in hits : i <= j

\* origin.refs.push || origin.refs.fetch || ""
RemoteUrl(r) == IF r.push # EmptyString THEN r.push ELSE r.fetch

\* the URL configureCredentials goes by: "" when no remote has the name
FoundUrl(c, remotes) ==
    LET i == FindRemote(remotes, configs[c.pinst.config].remoteName)
    IN IF i = 0 THEN EmptyString ELSE RemoteUrl(remotes[i])

\* (mutant of WritesCredentials) any URL of the named remote will do
WritesCredentialsAnyUrl(c, remotes) ==
    FindRemote(remotes, configs[c.pinst.config].remoteName) # 0

\* configureCredentials after getRemotes: TRUE when it goes on to write the file
WritesCredentials(c, remotes) ==
    /\ FindRemote(remotes, configs[c.pinst.config].remoteName) # 0
    /\ StartsWith(FoundUrl(c, remotes), https)

GetRemotesReturn(s, ok, remotes) ==
    /\ Awaiting(s, {"autoCommit", "push", "pull", "modal"} \cup ViewActions, "getRemotes")
    /\ LET c == Got(calls[s], ok)
           f == [c EXCEPT !.found = FoundUrl(c, remotes)]
       IN IF ~ok THEN Settle(s, Throw(c)) /\ UNCHANGED credFile
          ELSE IF ~WritesCredentials(c, remotes)
          THEN Settle(s, AfterConfigureCredentials(f)) /\ UNCHANGED credFile
          ELSE /\ credFile' = writeFileSync(credFile, credLine(c.usr, c.tok))
               /\ Settle(s, Issue([f EXCEPT !.remotes = remotes], "addConfig"))
    /\ UNCHANGED <<configs, settingsVars, repos, timers, timerCfg, unloaded,
                   helper, credStaged, credCommitted, worktree, gitignore, blobs>>

AddConfigReturn(s, ok) ==
    /\ Awaiting(s, {"autoCommit", "push", "pull", "modal"} \cup ViewActions, "addConfig")
    /\ LET c == [Got(calls[s], ok) EXCEPT !.remotes = <<>>]
       IN IF ok
          THEN /\ helper' = [helper EXCEPT ![c.pinst.absolutePath] = credentialHelper]
               /\ Settle(s, AfterConfigureCredentials(c))
          ELSE /\ UNCHANGED helper
               /\ Settle(s, Throw(c))
    /\ UNCHANGED <<configs, settingsVars, repos, timers, timerCfg, unloaded,
                   credFile, credStaged, credCommitted, worktree, gitignore, blobs>>

main == <<"m", "a", "i", "n">>

\* (mutant of PushArguments) every push sets the upstream
PushArgumentsSetUpstream(remoteName, tracking, current) ==
    <<"-u", IF remoteName = EmptyString THEN origin ELSE remoteName,
      IF current = EmptyString THEN main ELSE current>>

\* the arguments of git.push: none when a branch is tracked, else
\* ["-u", config.remoteName || "origin", status.current || "main"]
PushArguments(remoteName, tracking, current) ==
    IF tracking THEN <<>>
    ELSE <<"-u", IF remoteName = EmptyString THEN origin ELSE remoteName,
           IF current = EmptyString THEN main ELSE current>>

\* push after `await git.status()`: set-upstream when nothing is tracked
PushStatusReturn(s, ok, tracking, current) ==
    /\ Awaiting(s, {"autoCommit", "push"} \cup ViewActions, "pushStatus")
    /\ LET c == Got(calls[s], ok)
           args == PushArguments(configs[c.pinst.config].remoteName, tracking, current)
           p == [c EXCEPT !.tracking = tracking, !.current = current, !.args = args]
       IN Settle(s, IF ~ok THEN Throw(c)
                    ELSE IF args = <<>> THEN IssueAs(p, "push", "push")
                    ELSE IssueAs(p, "push", "push -u"))
    /\ UNCHANGED <<configs, settingsVars, repos, timers, timerCfg, unloaded, gitVars>>

\* what the view shows when the push of its commit action returned
Pushed(c) ==
    IF c.kind \in ViewActions
    THEN [c EXCEPT !.notices = Append(@, "Pushed to remote.")]
    ELSE c

PushReturn(s, ok) ==
    /\ Awaiting(s, {"autoCommit", "push"} \cup ViewActions, "push")
    /\ LET c == Got(calls[s], ok)
       IN Settle(s, IF ok THEN Return(Pushed(c)) ELSE Throw(c))
    /\ UNCHANGED <<configs, settingsVars, repos, timers, timerCfg, unloaded, gitVars>>

PullReturn(s, ok) ==
    /\ Awaiting(s, {"pull"}, "pull")
    /\ LET c == Got(calls[s], ok)
       IN Settle(s, IF ok THEN Return(c) ELSE Throw(c))
    /\ UNCHANGED <<configs, settingsVars, repos, timers, timerCfg, unloaded, gitVars>>

push(folderPath, s) ==
    /\ UiReady /\ ~ModalOpen
    /\ Start(s, EnterPush(Call("push", folderPath, MapGet(repos, folderPath))))
    /\ UNCHANGED <<configs, settingsRepos, settingsVars, repos, timers, timerCfg,
                   unloaded, gitVars>>

pull(folderPath, s) ==
    /\ UiReady /\ ~ModalOpen
    /\ Start(s, EnterPush(Call("pull", folderPath, MapGet(repos, folderPath))))
    /\ UNCHANGED <<configs, settingsRepos, settingsVars, repos, timers, timerCfg,
                   unloaded, gitVars>>

(* -------------------------- add-repository modal ----------------------- *)

sshUrl == <<"g", "i", "t", "@", "h", ":", "r">>
httpsUrl == https \o <<"h", "/", "r">>

\* handleAdd once addRepo returned (and addRemote, when there is one):
\* configureCredentials when a token is set and the remote is HTTPS, then
\* settings.repos.push(config)
ModalCredentials(c, m) ==
    IF githubToken # EmptyString /\ StartsWith(c.url, https)
    THEN EnterConfigureCredentials(c, m)
    ELSE Return(c)

\* AddRepoModal.handleAdd up to addRepo's `await git.checkIsRepo()`; the
\* init, clone and hosting-provider steps before it touch no registry state
handleAdd(folderPath, mode, remoteUrl, githubRemoteUrl, s) ==
    /\ UiReady /\ ~ModalOpen
    /\ Len(configs) < MaxConfigs
    /\ githubRemoteUrl # EmptyString => mode = "init" /\ githubToken # EmptyString
    /\ FreeSlot(s)
    /\ LET finalRemoteUrl == IF githubRemoteUrl # EmptyString THEN githubRemoteUrl
                             ELSE remoteUrl
           config == FolderRepoConfig(folderPath, origin,
                                      githubRemoteUrl # EmptyString, 0)
       IN /\ configs' = Append(configs, config)
          /\ settled' = NoOutcome
          /\ calls' = [calls EXCEPT ![s] =
                [Call("modal", folderPath, NoInstance) EXCEPT
                    !.cfg = Len(configs) + 1, !.url = finalRemoteUrl, !.mode = mode,
                    !.pc = "checkIsRepo", !.ops = <<"checkIsRepo">>]]
    /\ UNCHANGED <<settingsRepos, settingsVars, repos, timers, timerCfg, unloaded,
                   failedTimers, gitVars>>

\* handleAdd after `await addRepo(config)`
ModalAddRepoReturn(s, isRepo) ==
    /\ Awaiting(s, {"modal"}, "checkIsRepo")
    /\ LET c == Got(calls[s], isRepo)
       IN IF ~isRepo
          THEN /\ UNCHANGED <<repos, timers, timerCfg>>
               /\ Settle(s, Throw(c))
          ELSE /\ AddRepoRegister(c.cfg)
               /\ Settle(s, IF c.url # EmptyString /\ c.mode # "clone"
                            THEN Issue(c, "addRemote")
                            ELSE ModalCredentials(c, repos'))
    /\ UNCHANGED <<configs, settingsVars, unloaded, gitVars>>

\* handleAdd after `await addRemote(...)`, whose failure is swallowed
AddRemoteReturn(s, ok) ==
    /\ Awaiting(s, {"modal"}, "addRemote")
    /\ Settle(s, ModalCredentials(Got(calls[s], ok), repos))
    /\ UNCHANGED <<configs, settingsVars, repos, timers, timerCfg, unloaded, gitVars>>

(* ------------------------------ autoCommit ----------------------------- *)

\* (mutant of TimerFire) a one-shot timer: the firing disarms it
TimerFireOnce(t, s) ==
    /\ t \in timers
    /\ timers' = timers \ {t}
    /\ LET folderPath == configs[timerCfg[t]].folderPath
           c == [Call("autoCommit", folderPath, MapGet(repos, folderPath))
                    EXCEPT !.timer = t, !.refire = t \in failedTimers]
       IN Start(s, IF ~MapHas(repos, folderPath) THEN Return(c) ELSE Issue(c, "status"))
    /\ UNCHANGED <<configs, settingsRepos, settingsVars, repos, timerCfg,
                   unloaded, gitVars>>

\* the setInterval callback of timer t: autoCommit up to `await git.status()`
TimerFire(t, s) ==
    /\ t \in timers
    /\ LET folderPath == configs[timerCfg[t]].folderPath
           c == [Call("autoCommit", folderPath, MapGet(repos, folderPath))
                    EXCEPT !.timer = t, !.refire = t \in failedTimers]
       IN Start(s, IF ~MapHas(repos, folderPath) THEN Return(c) ELSE Issue(c, "status"))
    /\ UNCHANGED <<configs, settingsRepos, settingsVars, repos, timers, timerCfg,
                   unloaded, gitVars>>

\* (mutant of NothingToCommit) the cycle goes on whatever status reports
NothingToCommitNever(files) == FALSE

\* `status.files.length === 0`
NothingToCommit(files) == Len(files) = 0

\* (mutant of AutoPushes) the cycle pushes whatever the config says
AutoPushesAlways(c) == TRUE

\* `instance.config.autoPush`, read after the commit
AutoPushes(c) == configs[c.inst.config].autoPush

\* autoCommit after `await git.status()`
AutoCommitStatusReturn(s, ok, files) ==
    /\ Awaiting(s, {"autoCommit"}, "status")
    /\ LET c == Got(calls[s], ok)
           f == [c EXCEPT !.files = files]
       IN Settle(s, IF ~ok THEN Throw(c)
                    ELSE IF NothingToCommit(files) THEN Return(f)
                    ELSE Issue(f, "add"))
    /\ UNCHANGED <<configs, settingsVars, repos, timers, timerCfg, unloaded, gitVars>>

\* the first index at or after i where pattern occurs in str, 0 when none
RECURSIVE IndexFrom(_, _, _)
IndexFrom(str, pattern, i) ==
    IF i + Len(pattern) - 1 > Len(str) THEN 0
    ELSE IF SubSeq(str, i, i + Len(pattern) - 1) = pattern THEN i
    ELSE IndexFrom(str, pattern, i + 1)

\* String.prototype.replace with a string pattern: the first occurrence only
\* (the replacement holds no `$`, so it is inserted as it is)
replace(str, pattern, replacement) ==
    LET i == IndexFrom(str, pattern, 1)
    IN IF i = 0 THEN str
       ELSE SubSeq(str, 1, i - 1) \o replacement
            \o SubSeq(str, i + Len(pattern), Len(str))

\* "2024-01-01T00:0m:00.000Z"
IsoMinute(m) ==
    <<"2", "0", "2", "4", "-", "0", "1", "-", "0", "1", "T", "0", "0", ":", "0", m,
      ":", "0", "0", ".", "0", "0", "0", "Z">>

\* what `new Date().toISOString()` may answer
Timestamps == {IsoMinute("0"), IsoMinute("1")}

\* autoCommit's message, built from the instance's config once `git add` is back
CommitMessage(c, now) ==
    [c EXCEPT !.now = now,
              !.arg = replace(configs[c.inst.config].commitMessageTemplate,
                              DateToken, now)]

\* the view's `await this.plugin.repoRegistry.commit(this.activeRepo, message)`
\* up to its await
ViewCommit(c) ==
    IF ~MapHas(repos, c.folder) THEN Throw(c)
    ELSE Issue([c EXCEPT !.inst = MapGet(repos, c.folder)], "commit")

\* (mutant of ViewPushes) the view pushes after every commit
ViewPushesAlways(c) == TRUE

\* `repo?.config.autoPush` of `getRepo(this.activeRepo)`, read after the commit
ViewPushes(c) ==
    /\ MapHas(repos, c.folder)
    /\ configs[MapGet(repos, c.folder).config].autoPush

\* the view once its commit returned: the notice, then the push when the
\* repository's config says so (the refresh that follows only reads)
AfterViewCommit(c) ==
    LET n == [c EXCEPT !.notices = Append(@, "Committed")]
    IN IF ViewPushes(c) THEN EnterPush(n) ELSE Return(n)

\* autoCommit has no further use of its message once the commit is back
Forget(c) ==
    IF c.kind = "autoCommit" THEN [c EXCEPT !.arg = EmptyString, !.now = EmptyString]
    ELSE c

\* `git add`: stageAll and autoCommit add ".", which takes in every file under
\* the directory that no ignore rule excludes
AddReturn(s, ok, ignored) ==
    /\ Awaiting(s, {"autoCommit", "stage", "stageAll", "commitAll"}, "add")
    /\ LET c == Got(calls[s], ok)
           d == c.inst.absolutePath
       IN /\ credStaged' =
                IF ok /\ c.kind # "stage" /\ credFile # NoFile
                      /\ Under(credPath, d) /\ ~ignored
                THEN credStaged \cup {d}
                ELSE credStaged
          /\ blobs' = IF ok THEN [blobs EXCEPT !.index = blobs.working] ELSE blobs
          /\ \E now \in Timestamps :
                Settle(s, IF ~ok THEN Throw(c)
                          ELSE IF c.kind = "autoCommit"
                          THEN Issue(CommitMessage(c, now), "commit")
                          ELSE IF c.kind = "commitAll" THEN ViewCommit(c)
                          ELSE Return(c))
    /\ UNCHANGED <<configs, settingsVars, repos, timers, timerCfg, unloaded,
                   credFile, helper, credCommitted, worktree, gitignore>>

\* (mutant of CommitReturn) a rejected commit is taken for a commit
CommitReturnSwallows(s, ok) ==
    /\ Awaiting(s, {"autoCommit", "commit"} \cup ViewActions, "commit")
    /\ LET c == Forget(Got(calls[s], ok))
           d == c.inst.absolutePath
       IN /\ credCommitted' = IF ok /\ d \in credStaged
                              THEN credCommitted \cup {d} ELSE credCommitted
          /\ credStaged' = IF ok THEN credStaged \ {d} ELSE credStaged
          /\ blobs' = IF ok THEN [blobs EXCEPT !.head = blobs.index] ELSE blobs
          /\ Settle(s, IF c.kind = "autoCommit" /\ AutoPushes(c)
                       THEN EnterPush(c)
                       ELSE IF c.kind \in ViewActions THEN AfterViewCommit(c)
                       ELSE Return(c))
    /\ UNCHANGED <<configs, settingsVars, repos, timers, timerCfg, unloaded,
                   credFile, helper, worktree, gitignore>>

\* `git commit`: the index becomes history; autoCommit goes on to push when
\* the instance's config says autoPush, and has no further use of the message
CommitReturn(s, ok) ==
    /\ Awaiting(s, {"autoCommit", "commit"} \cup ViewActions, "commit")
    /\ LET c == Forget(Got(calls[s], ok))
           d == c.inst.absolutePath
       IN /\ credCommitted' = IF ok /\ d \in credStaged
                              THEN credCommitted \cup {d} ELSE credCommitted
          /\ credStaged' = IF ok THEN credStaged \ {d} ELSE credStaged
          /\ blobs' = IF ok THEN [blobs EXCEPT !.head = blobs.index] ELSE blobs
          /\ Settle(s, IF ~ok THEN Throw(c)
                       ELSE IF c.kind = "autoCommit" /\ AutoPushes(c)
                       THEN EnterPush(c)
                       ELSE IF c.kind \in ViewActions THEN AfterViewCommit(c)
                       ELSE Return(c))
    /\ UNCHANGED <<configs, settingsVars, repos, timers, timerCfg, unloaded,
                   credFile, helper, worktree, gitignore>>

\* the auto-push toggle of the settings tab
SetAutoPush(c, value) ==
    /\ UiReady /\ ~ModalOpen
    /\ c \in {settingsRepos[i] : i \in 1..Len(settingsRepos)}
    /\ configs' = [configs EXCEPT ![c].autoPush = value]
    /\ settled' = NoOutcome
    /\ UNCHANGED <<settingsRepos, settingsVars, repos, timers, timerCfg, unloaded,
                   calls, failedTimers, gitVars>>

(* ------------------- stage, unstage, discard, commit ------------------- *)

\* (mutant of SimpleCall) the command is issued without the look-up's check
SimpleCallUnchecked(kind, cmd, folderPath, s) ==
    /\ UiReady /\ ~ModalOpen
    /\ Start(s, Issue(Call(kind, folderPath, MapGet(repos, folderPath)), cmd))
    /\ UNCHANGED <<configs, settingsRepos, settingsVars, repos, timers, timerCfg,
                   unloaded, gitVars>>

\* a registry method that looks the instance up, throws when there is none,
\* and awaits one command of the external process
SimpleCall(kind, cmd, folderPath, s) ==
    /\ UiReady /\ ~ModalOpen
    /\ LET c == Call(kind, folderPath, MapGet(repos, folderPath))
       IN Start(s, IF ~MapHas(repos, folderPath) THEN Throw(c) ELSE Issue(c, cmd))
    /\ UNCHANGED <<configs, settingsRepos, settingsVars, repos, timers, timerCfg,
                   unloaded, gitVars>>

stage(folderPath, s) == SimpleCall("stage", "add", folderPath, s)
stageAll(folderPath, s) == SimpleCall("stageAll", "add", folderPath, s)
unstage(folderPath, s) == SimpleCall("unstage", "reset", folderPath, s)
unstageAll(folderPath, s) == SimpleCall("unstageAll", "reset", folderPath, s)
discard(folderPath, s) == SimpleCall("discard", "checkout", folderPath, s)
checkout(folderPath, s) == SimpleCall("checkout", "checkout", folderPath, s)
commit(folderPath, s) == SimpleCall("commit", "commit", folderPath, s)

\* `git reset HEAD [-- files]`: unstageAll empties the index
ResetReturn(s, ok) ==
    /\ Awaiting(s, {"unstage", "unstageAll"}, "reset")
    /\ LET c == Got(calls[s], ok)
       IN /\ credStaged' = IF ok /\ c.kind = "unstageAll"
                           THEN credStaged \ {c.inst.absolutePath} ELSE credStaged
          /\ blobs' = IF ok THEN [blobs EXCEPT !.index = blobs.head] ELSE blobs
          /\ Settle(s, IF ok THEN Return(c) ELSE Throw(c))
    /\ UNCHANGED <<configs, settingsVars, repos, timers, timerCfg, unloaded,
                   credFile, helper, credCommitted, worktree, gitignore>>

\* `git checkout -- file`: the file on disk becomes the index's copy of it
CheckoutPath(b) == [b EXCEPT !.working = b.index]

\* `git checkout`: discard hands it `-- file`, which git rejects when the index
\* has no such path; a checkout of a branch leaves the uncommitted changes
CheckoutReturn(s, ok) ==
    /\ Awaiting(s, {"discard", "checkout"}, "checkout")
    /\ calls[s].kind = "discard" /\ blobs.index = NoFile => ~ok
    /\ LET c == Got(calls[s], ok)
       IN /\ blobs' = IF ok /\ c.kind = "discard" THEN CheckoutPath(blobs) ELSE blobs
          /\ Settle(s, IF ok THEN Return(c) ELSE Throw(c))
    /\ UNCHANGED <<configs, settingsVars, repos, timers, timerCfg, unloaded,
                   credFile, helper, credStaged, credCommitted, worktree, gitignore>>

(* ------------- diff, log, branches, remotes of a repository ------------ *)

\* the command each of these methods awaits
QueryCommand(kind) ==
    CASE kind = "getDiff" -> "diff"
      [] kind = "getLog" -> "log"
      [] kind = "getBranch" -> "status"
      [] kind = "getBranches" -> "branchLocal"
      [] kind = "addRemote" -> "addRemote"
      [] kind = "detectRemotes" -> "getRemotes"

getDiff(folderPath, s) == SimpleCall("getDiff", QueryCommand("getDiff"), folderPath, s)
getLog(folderPath, s) == SimpleCall("getLog", QueryCommand("getLog"), folderPath, s)
getBranch(folderPath, s) == SimpleCall("getBranch", QueryCommand("getBranch"), folderPath, s)
getBranches(folderPath, s) ==
    SimpleCall("getBranches", QueryCommand("getBranches"), folderPath, s)
addRemote(folderPath, s) == SimpleCall("addRemote", QueryCommand("addRemote"), folderPath, s)
detectRemotes(folderPath, s) ==
    SimpleCall("detectRemotes", QueryCommand("detectRemotes"), folderPath, s)

\* getDiff, getLog, getBranches, addRemote, detectRemotes after their await:
\* the answer is handed on (its content is the external process's)
QueryReturn(s, ok) ==
    /\ calls[s].kind \in {"getDiff", "getLog", "getBranches", "addRemote", "detectRemotes"}
    /\ calls[s].pc = QueryCommand(calls[s].kind)
    /\ LET c == Got(calls[s], ok)
       IN Settle(s, IF ok THEN Return(c) ELSE Throw(c))
    /\ UNCHANGED <<configs, settingsVars, repos, timers, timerCfg, unloaded, gitVars>>

HEAD == <<"H", "E", "A", "D">>

\* getBranch after `await instance.git.status()`: status.current || "HEAD"
GetBranchReturn(s, ok, current) ==
    /\ Awaiting(s, {"getBranch"}, "status")
    /\ LET c == Got(calls[s], ok)
       IN Settle(s, IF ok
                    THEN Return([c EXCEPT !.value =
                                   IF current = EmptyString THEN HEAD ELSE current])
                    ELSE Throw(c))
    /\ UNCHANGED <<configs, settingsVars, repos, timers, timerCfg, unloaded, gitVars>>

(* ------------------------ detectRemotesFromPath ------------------------ *)

\* detectRemotesFromPath up to `await git.checkIsRepo()`, on a handle of its own
detectRemotesFromPath(absolutePath, s) ==
    /\ UiReady /\ ~ModalOpen
    /\ Start(s, Issue([Call("detectRemotesFromPath", EmptyString, NoInstance)
                          EXCEPT !.arg = absolutePath], "checkIsRepo"))
    /\ UNCHANGED <<configs, settingsRepos, settingsVars, repos, timers, timerCfg,
                   unloaded, gitVars>>

\* remotes.map(r => ({ name: r.name, fetchUrl: r.refs.fetch || "" }))
DetectedRemotes(remotes) ==
    [i \in 1..Len(remotes) |-> [name |-> remotes[i].name, fetchUrl |-> remotes[i].fetch]]

\* (mutant of DetectCheckReturn) no try/catch around the check
DetectCheckReturnUncaught(s, isRepo) ==
    /\ Awaiting(s, {"detectRemotesFromPath"}, "checkIsRepo")
    /\ LET c == [calls[s] EXCEPT !.res = Append(@, isRepo)]
       IN Settle(s, IF isRepo = "failed" THEN Throw(c)
                    ELSE IF isRepo = "false" THEN Return([c EXCEPT !.value = <<>>])
                    ELSE Issue(c, "getRemotes"))
    /\ UNCHANGED <<configs, settingsVars, repos, timers, timerCfg, unloaded, gitVars>>

\* after `await git.checkIsRepo()`: it answered true or false, or failed
\* (caught: the empty list)
DetectCheckReturn(s, isRepo) ==
    /\ Awaiting(s, {"detectRemotesFromPath"}, "checkIsRepo")
    /\ LET c == [calls[s] EXCEPT !.res = Append(@, isRepo)]
       IN Settle(s, IF isRepo = "true" THEN Issue(c, "getRemotes")
                    ELSE Return([c EXCEPT !.value = <<>>]))
    /\ UNCHANGED <<configs, settingsVars, repos, timers, timerCfg, unloaded, gitVars>>

\* after `await git.getRemotes(true)`: the mapped list, or the empty list
\* when it failed
DetectGetRemotesReturn(s, ok, remotes) ==
    /\ Awaiting(s, {"detectRemotesFromPath"}, "getRemotes")
    /\ LET c == Got(calls[s], ok)
       IN Settle(s, Return([c EXCEPT !.value =
                              IF ok THEN DetectedRemotes(remotes) ELSE <<>>]))
    /\ UNCHANGED <<configs, settingsVars, repos, timers, timerCfg, unloaded, gitVars>>

(* ------------------------------ .gitignore ----------------------------- *)

JsTrue == [value |-> "true"]
JsFalse == [value |-> "false"]
Boolean(b) == IF b THEN JsTrue ELSE JsFalse

Newline == "\n"
WhiteSpace == {" ", "\t", "\r", Newline}

\* String.prototype.trim
RECURSIVE trim(_)
trim(line) ==
    IF line = <<>> THEN line
    ELSE IF line[1] \in WhiteSpace THEN trim(Tail(line))
    ELSE IF line[Len(line)] \in WhiteSpace THEN trim(SubSeq(line, 1, Len(line) - 1))
    ELSE line

\* content.split(/\r?\n/), from character i on, cur being the line so far
RECURSIVE SplitLines(_, _, _, _)
SplitLines(content, i, cur, acc) ==
    IF i > Len(content) THEN Append(acc, cur)
    ELSE IF content[i] = Newline
         THEN SplitLines(content, i + 1, <<>>, Append(acc, cur))
    ELSE IF content[i] = "\r" /\ i < Len(content) /\ content[i + 1] = Newline
         THEN SplitLines(content, i + 2, <<>>, Append(acc, cur))
    ELSE SplitLines(content, i + 1, Append(cur, content[i]), acc)

split(content) == SplitLines(content, 1, <<>>, <<>>)

\* lines.join("\n")
RECURSIVE join(_)
join(lines) ==
    IF lines = <<>> THEN <<>>
    ELSE IF Len(lines) = 1 THEN lines[1]
    ELSE lines[1] \o <<Newline>> \o join(Tail(lines))

\* (mutant of Matches) a line matches when it starts with the path
MatchesStart(line, relativePath) == StartsWith(trim(line), relativePath)

\* trimmed === relativePath || trimmed === relativePath + "/"
Matches(line, relativePath) ==
    trim(line) = relativePath \/ trim(line) = relativePath \o Slash

\* a synchronous registry call that ended as c (files: what it read of the
\* ignore file)
Finish(c) ==
    /\ settled' = Outcome(c)
    /\ UNCHANGED <<configs, settingsRepos, settingsVars, repos, timers, timerCfg,
                   unloaded, calls, failedTimers>>

Accessed(c, ops) == [c EXCEPT !.ops = ops]

Read(c, content) == [c EXCEPT !.files = content]

\* checkExplicitlyIgnored: false without an instance or without a file
checkExplicitlyIgnored(folderPath, relativePath) ==
    /\ UiReady /\ ~ModalOpen
    /\ LET instance == MapGet(repos, folderPath)
           c == [Call("checkExplicitlyIgnored", folderPath, instance)
                    EXCEPT !.arg = relativePath]
           content == gitignore[instance.absolutePath]
           lines == split(content)
       IN Finish(IF ~MapHas(repos, folderPath)
                 THEN Return([c EXCEPT !.value = JsFalse])
                 ELSE IF content = NoFile
                 THEN Return([Accessed(c, <<"existsSync">>) EXCEPT !.value = JsFalse])
                 ELSE Return([Read(Accessed(c, <<"existsSync", "readFileSync">>), content)
                                EXCEPT !.value = Boolean(\E i \in 1..Len(lines) :
                                                            Matches(lines[i], relativePath))]))
    /\ UNCHANGED gitVars

\* checkIgnored up to `await instance.git.raw(["check-ignore", ...])`: false
\* without an instance
checkIgnored(folderPath, s) ==
    /\ UiReady /\ ~ModalOpen
    /\ LET c == Call("checkIgnored", folderPath, MapGet(repos, folderPath))
       IN Start(s, IF ~MapHas(repos, folderPath)
                   THEN Return([c EXCEPT !.value = JsFalse])
                   ELSE Issue(c, "check-ignore"))
    /\ UNCHANGED <<configs, settingsRepos, settingsVars, repos, timers, timerCfg,
                   unloaded, gitVars>>

\* checkIgnored after its await: true when the command succeeded, false when
\* it threw
CheckIgnoreReturn(s, ok) ==
    /\ Awaiting(s, {"checkIgnored"}, "check-ignore")
    /\ Settle(s, Return([Got(calls[s], ok) EXCEPT !.value = Boolean(ok)]))
    /\ UNCHANGED <<configs, settingsVars, repos, timers, timerCfg, unloaded, gitVars>>

\* (mutant of addToGitignore) the path is appended to the content as it is
addToGitignoreUnseparated(folderPath, relativePath) ==
    /\ UiReady /\ ~ModalOpen
    /\ LET instance == MapGet(repos, folderPath)
           c == [Call("addToGitignore", folderPath, instance)
                    EXCEPT !.arg = relativePath]
           file == gitignore[instance.absolutePath]
           content == IF file = NoFile THEN EmptyString ELSE file
           data == content \o relativePath \o <<Newline>>
       IN IF ~MapHas(repos, folderPath)
          THEN Finish(Throw(c)) /\ UNCHANGED gitVars
          ELSE /\ Len(data) <= MaxIgnoreLen
               /\ gitignore' = [gitignore EXCEPT ![instance.absolutePath] =
                                   writeFileSync(instance.absolutePath, data)]
               /\ Finish(Return(IF file = NoFile
                                 THEN Accessed(c, <<"existsSync", "writeFileSync">>)
                                 ELSE Read(Accessed(c, <<"existsSync", "readFileSync",
                                                        "writeFileSync">>), file)))
               /\ UNCHANGED <<credFile, helper, credStaged, credCommitted, worktree, blobs>>

\* addToGitignore: the file's content, ended by a newline when it is not
\* empty, then relativePath and a newline
addToGitignore(folderPath, relativePath) ==
    /\ UiReady /\ ~ModalOpen
    /\ LET instance == MapGet(repos, folderPath)
           c == [Call("addToGitignore", folderPath, instance)
                    EXCEPT !.arg = relativePath]
           file == gitignore[instance.absolutePath]
           content == IF file = NoFile THEN EmptyString
                      ELSE IF Len(file) > 0 /\ file[Len(file)] # Newline
                      THEN file \o <<Newline>>
                      ELSE file
           data == content \o relativePath \o <<Newline>>
       IN IF ~MapHas(repos, folderPath)
          THEN Finish(Throw(c)) /\ UNCHANGED gitVars
          ELSE /\ Len(data) <= MaxIgnoreLen
               /\ gitignore' = [gitignore EXCEPT ![instance.absolutePath] =
                                   writeFileSync(instance.absolutePath, data)]
               /\ Finish(Return(IF file = NoFile
                                 THEN Accessed(c, <<"existsSync", "writeFileSync">>)
                                 ELSE Read(Accessed(c, <<"existsSync", "readFileSync",
                                                        "writeFileSync">>), file)))
               /\ UNCHANGED <<credFile, helper, credStaged, credCommitted, worktree, blobs>>

\* removeFromGitignore: nothing without a file; otherwise the lines that do
\* not match, joined by newlines
removeFromGitignore(folderPath, relativePath) ==
    /\ UiReady /\ ~ModalOpen
    /\ LET instance == MapGet(repos, folderPath)
           c == [Call("removeFromGitignore", folderPath, instance)
                    EXCEPT !.arg = relativePath]
           content == gitignore[instance.absolutePath]
           newLines == SelectSeq(split(content), LAMBDA line : ~Matches(line, relativePath))
       IN IF ~MapHas(repos, folderPath)
          THEN Finish(Throw(c)) /\ UNCHANGED gitVars
          ELSE IF content = NoFile
          THEN Finish(Return(Accessed(c, <<"existsSync">>))) /\ UNCHANGED gitVars
          ELSE /\ gitignore' = [gitignore EXCEPT ![instance.absolutePath] =
                                   writeFileSync(instance.absolutePath, join(newLines))]
               /\ Finish(Return(Read(Accessed(c, <<"existsSync", "readFileSync",
                                                   "writeFileSync">>), content)))
               /\ UNCHANGED <<credFile, helper, credStaged, credCommitted, worktree, blobs>>

(* ------------ the source control view's Commit and Commit all ---------- *)

\* commitChanges: nothing without a message, else commit and the push after it
commitChanges(folderPath, value, s) ==
    /\ UiReady /\ ~ModalOpen
    /\ LET message == trim(value)
           c == [Call("commitChanges", folderPath, MapGet(repos, folderPath))
                    EXCEPT !.arg = message]
       IN Start(s, IF message = EmptyString
                   THEN Return([c EXCEPT !.notices = <<"Please enter a commit message.">>])
                   ELSE ViewCommit(c))
    /\ UNCHANGED <<configs, settingsRepos, settingsVars, repos, timers, timerCfg,
                   unloaded, gitVars>>

\* commitAll: nothing without a message, else stageAll, commit and the push
commitAll(folderPath, value, s) ==
    /\ UiReady /\ ~ModalOpen
    /\ LET message == trim(value)
           c == [Call("commitAll", folderPath, MapGet(repos, folderPath))
                    EXCEPT !.arg = message]
       IN Start(s, IF message = EmptyString
                   THEN Return([c EXCEPT !.notices = <<"Please enter a commit message.">>])
                   ELSE IF ~MapHas(repos, folderPath) THEN Throw(c)
                   ELSE Issue(c, "add"))
    /\ UNCHANGED <<configs, settingsRepos, settingsVars, repos, timers, timerCfg,
                   unloaded, gitVars>>

(* --------------------------- getRepoForFile ---------------------------- *)

\* (mutant of Owns) the folder only has to be a string prefix of the path
OwnsByStringPrefix(folder, filePath) == StartsWith(filePath, folder)

\* filePath.startsWith(folder + "/") || folder === "" || folder === filePath
Owns(folder, filePath) ==
    \/ StartsWith(filePath, folder \o Slash)
    \/ folder = EmptyString
    \/ folder = filePath

\* the loop of getRepoForFile over the Map's entries, in insertion order
RECURSIVE BestMatch(_, _, _, _, _)
BestMatch(m, filePath, i, bestMatch, bestLength) ==
    IF i > Len(m) THEN bestMatch
    ELSE IF Owns(m[i].key, filePath) /\ Len(m[i].key) > bestLength
         THEN BestMatch(m, filePath, i + 1, m[i].inst, Len(m[i].key))
         ELSE BestMatch(m, filePath, i + 1, bestMatch, bestLength)

\* the instance that owns filePath, or undefined
getRepoForFile(filePath) == BestMatch(repos, filePath, 1, NoValue, -1)

\* the file menu asks which repository owns a file
FileMenu(filePath) ==
    /\ UiReady /\ ~ModalOpen
    /\ settled' = [Done("getRepoForFile", filePath, "ok")
                      EXCEPT !.value = getRepoForFile(filePath)]
    /\ UNCHANGED <<configs, settingsRepos, settingsVars, repos, timers, timerCfg,
                   unloaded, calls, failedTimers, gitVars>>

(* ------------------------------ getStatus ------------------------------ *)

\* (mutant of vaultPathOf) the folder is always joined on
vaultPathJoined(folderPath, path) == folderPath \o Slash \o path

\* `${folderPath}/${file.path}`, or file.path alone when folderPath is ""
vaultPathOf(folderPath, path) ==
    IF folderPath = EmptyString THEN path ELSE folderPath \o Slash \o path

\* (mutant of mapStatus) no default: a code stands for itself
mapStatusIdentity(code) == code

mapStatus(code) ==
    CASE code = "M" -> "M"
      [] code = "A" -> "A"
      [] code = "D" -> "D"
      [] code = "R" -> "R"
      [] code = "?" -> "?"
      [] code = "U" -> "U"
      [] OTHER -> "M"

FileStatusResult(file, vaultPath, code) ==
    [path |-> file.path, vaultPath |-> vaultPath, indexStatus |-> file.index,
     workingTreeStatus |-> file.working_dir, displayStatus |-> mapStatus(code)]

\* (mutant of Classify) a conflicted record goes on to the staged and changed
\* checks
ClassifyConflictedToo(folderPath, file, acc) ==
    LET vaultPath == vaultPathOf(folderPath, file.path)
        afterConflicted ==
            IF file.working_dir = "U" \/ file.index = "U"
            THEN [acc EXCEPT !.conflicted = Append(@, vaultPath)]
            ELSE acc
        afterStaged ==
            IF file.index # "" /\ file.index # " " /\ file.index # "?"
            THEN [afterConflicted EXCEPT !.staged =
                      Append(@, FileStatusResult(file, vaultPath, file.index))]
            ELSE afterConflicted
    IN IF file.working_dir = "?" /\ file.index = "?"
       THEN [acc EXCEPT !.untracked = Append(@, vaultPath)]
       ELSE IF file.working_dir # "" /\ file.working_dir # " " /\ file.working_dir # "?"
       THEN [afterStaged EXCEPT !.changed =
                Append(@, FileStatusResult(file, vaultPath, file.working_dir))]
       ELSE afterStaged

\* one turn of getStatus's loop over status.files
Classify(folderPath, file, acc) ==
    LET vaultPath == vaultPathOf(folderPath, file.path)
        afterStaged ==
            IF file.index # "" /\ file.index # " " /\ file.index # "?"
            THEN [acc EXCEPT !.staged =
                      Append(@, FileStatusResult(file, vaultPath, file.index))]
            ELSE acc
    IN IF file.working_dir = "?" /\ file.index = "?"
       THEN [acc EXCEPT !.untracked = Append(@, vaultPath)]
       ELSE IF file.working_dir = "U" \/ file.index = "U"
       THEN [acc EXCEPT !.conflicted = Append(@, vaultPath)]
       ELSE IF file.working_dir # "" /\ file.working_dir # " " /\ file.working_dir # "?"
       THEN [afterStaged EXCEPT !.changed =
                Append(@, FileStatusResult(file, vaultPath, file.working_dir))]
       ELSE afterStaged

\* (mutant of ClassifyAll) every record is classified twice
RECURSIVE ClassifyAllTwice(_, _, _, _)
ClassifyAllTwice(folderPath, files, i, acc) ==
    IF i > Len(files) THEN acc
    ELSE ClassifyAllTwice(folderPath, files, i + 1,
                          Classify(folderPath, files[i],
                                   Classify(folderPath, files[i], acc)))

RECURSIVE ClassifyAll(_, _, _, _)
ClassifyAll(folderPath, files, i, acc) ==
    IF i > Len(files) THEN acc
    ELSE ClassifyAll(folderPath, files, i + 1, Classify(folderPath, files[i], acc))

\* the RepoStatus getStatus returns for a status summary
RepoStatus(folderPath, status) ==
    ClassifyAll(folderPath, status.files, 1,
                [folderPath |-> folderPath,
                 branch |-> IF status.current = EmptyString
                            THEN <<"H", "E", "A", "D">> ELSE status.current,
                 staged |-> <<>>, changed |-> <<>>, untracked |-> <<>>,
                 conflicted |-> <<>>,
                 ahead |-> status.ahead, behind |-> status.behind])

getStatus(folderPath, s) == SimpleCall("getStatus", "status", folderPath, s)

\* getStatus after `await instance.git.status()`
GetStatusReturn(s, ok, current) ==
    /\ Awaiting(s, {"getStatus"}, "status")
    /\ LET c == Got(calls[s], ok)
           status == [files |-> worktree, current |-> current,
                      ahead |-> 0, behind |-> 0]
       IN Settle(s, IF ~ok THEN Throw(c)
                    ELSE Return([c EXCEPT !.files = worktree,
                                          !.value = RepoStatus(c.folder, status)]))
    /\ UNCHANGED <<configs, settingsVars, repos, timers, timerCfg, unloaded, gitVars>>

(* ------------------------- the specifications -------------------------- *)

\* a branch name, as status.current
branch == <<"b">>

StatusFiles == {<<>>, <<[path |-> <<"n">>, index |-> " ", working_dir |-> "M"]>>}

Configs == 1..Len(configs)

\* the registry's lifecycle: load, the modal, the settings tab, unload
Next ==
    \/ \E s \in Slots, isRepo \in BOOLEAN : InitializeStep(s, isRepo)
    \/ \E f \in FolderIds, mode \in {"existing", "init", "clone"},
          remoteUrl \in {EmptyString, sshUrl}, githubRemoteUrl \in {EmptyString, httpsUrl},
          s \in Slots : handleAdd(f, mode, remoteUrl, githubRemoteUrl, s)
    \/ \E s \in Slots, isRepo \in BOOLEAN : ModalAddRepoReturn(s, isRepo)
    \/ \E s \in Slots, ok \in BOOLEAN : AddRemoteReturn(s, ok)
    \/ \E c \in Configs : RemoveButton(c)
    \/ Onunload
    \/ \E c \in Configs, num \in -1..MaxInterval : SetAutoCommitInterval(c, num)

Spec == Init /\ [][Next]_vars

\* the auto-commit scheduler on the repositories the plugin loaded
NextAuto ==
    \/ \E s \in Slots, isRepo \in BOOLEAN : InitializeStep(s, isRepo)
    \/ \E c \in Configs : RemoveButton(c)
    \/ \E c \in Configs, value \in BOOLEAN : SetAutoPush(c, value)
    \/ \E t \in 1..Len(timerCfg), s \in Slots : TimerFire(t, s)
    \/ \E s \in Slots, ok \in BOOLEAN, files \in StatusFiles : AutoCommitStatusReturn(s, ok, files)
    \/ \E s \in Slots, ok \in BOOLEAN, ignored \in BOOLEAN : AddReturn(s, ok, ignored)
    \/ \E s \in Slots, ok \in BOOLEAN : CommitReturn(s, ok)
    \/ \E s \in Slots, ok \in BOOLEAN, tracking \in BOOLEAN,
          current \in {branch} : PushStatusReturn(s, ok, tracking, current)
    \/ \E s \in Slots, ok \in BOOLEAN : PushReturn(s, ok)

AutoConfigs == {FolderRepoConfig(f, origin, TRUE, MaxInterval) : f \in FolderIds}

InitAuto == InitWith(AutoConfigs, {EmptyString}, {EmptyString})

SpecAuto == InitAuto /\ [][NextAuto]_vars

\* the source control view and the scheduler on loaded repositories
NextOps ==
    \/ \E s \in Slots, isRepo \in BOOLEAN : InitializeStep(s, isRepo)
    \/ \E t \in 1..Len(timerCfg), s \in Slots : TimerFire(t, s)
    \/ \E s \in Slots, ok \in BOOLEAN, files \in StatusFiles : AutoCommitStatusReturn(s, ok, files)
    \/ \E f \in FolderIds, s \in Slots : stage(f, s)
    \/ \E f \in FolderIds, s \in Slots : stageAll(f, s)
    \/ \E f \in FolderIds, s \in Slots : unstage(f, s)
    \/ \E f \in FolderIds, s \in Slots : unstageAll(f, s)
    \/ \E f \in FolderIds, s \in Slots : discard(f, s)
    \/ \E f \in FolderIds, s \in Slots : checkout(f, s)
    \/ \E f \in FolderIds, s \in Slots : commit(f, s)
    \/ \E f \in FolderIds, s \in Slots : push(f, s)
    \/ \E f \in FolderIds, s \in Slots : pull(f, s)
    \/ \E s \in Slots, ok \in BOOLEAN, ignored \in BOOLEAN : AddReturn(s, ok, ignored)
    \/ \E s \in Slots, ok \in BOOLEAN : ResetReturn(s, ok)
    \/ \E s \in Slots, ok \in BOOLEAN : CheckoutReturn(s, ok)
    \/ \E s \in Slots, ok \in BOOLEAN : CommitReturn(s, ok)
    \/ \E s \in Slots, ok \in BOOLEAN, tracking \in BOOLEAN,
          current \in {branch} : PushStatusReturn(s, ok, tracking, current)
    \/ \E s \in Slots, ok \in BOOLEAN : PushReturn(s, ok)
    \/ \E s \in Slots, ok \in BOOLEAN : PullReturn(s, ok)

OpsConfigs == {FolderRepoConfig(f, origin, FALSE, MaxInterval) : f \in FolderIds}

InitOps == InitWith(OpsConfigs, {EmptyString}, {EmptyString})

SpecOps == InitOps /\ [][NextOps]_vars

upstream == <<"u", "p">>

Remote(name, fetch, push_) == [name |-> name, fetch |-> fetch, push |-> push_]

\* answers of `git remote -v`
RemoteLists ==
    {<<>>,
     <<Remote(origin, httpsUrl, httpsUrl)>>,
     <<Remote(origin, sshUrl, sshUrl)>>,
     <<Remote(origin, httpsUrl, EmptyString)>>,
     <<Remote(upstream, sshUrl, sshUrl), Remote(origin, httpsUrl, httpsUrl)>>}

\* credentials: push and pull, with and without a token and a user name
NextCred ==
    \/ \E s \in Slots, isRepo \in BOOLEAN : InitializeStep(s, isRepo)
    \/ \E f \in FolderIds, s \in Slots : push(f, s)
    \/ \E f \in FolderIds, s \in Slots : pull(f, s)
    \/ \E s \in Slots, ok \in BOOLEAN, remotes \in RemoteLists : GetRemotesReturn(s, ok, remotes)
    \/ \E s \in Slots, ok \in BOOLEAN : AddConfigReturn(s, ok)
    \/ \E s \in Slots, ok \in BOOLEAN, tracking \in BOOLEAN,
          current \in {branch} : PushStatusReturn(s, ok, tracking, current)
    \/ \E s \in Slots, ok \in BOOLEAN : PushReturn(s, ok)
    \/ \E s \in Slots, ok \in BOOLEAN : PullReturn(s, ok)

\* repositories without a timer, the vault root under either remote name
CredConfigs ==
    {FolderRepoConfig(EmptyString, r, FALSE, 0) : r \in {EmptyString, upstream}}
        \cup {FolderRepoConfig(<<"a">>, EmptyString, FALSE, 0)}

InitCred == InitWith(CredConfigs, {EmptyString, <<"t">>}, {EmptyString, <<"u">>})

SpecCred == InitCred /\ [][NextCred]_vars

\* the scheduler with a token: every cycle pushes, every push configures
\* the credentials
NextStore ==
    \/ \E s \in Slots, isRepo \in BOOLEAN : InitializeStep(s, isRepo)
    \/ \E t \in 1..Len(timerCfg), s \in Slots : TimerFire(t, s)
    \/ \E s \in Slots, ok \in BOOLEAN, files \in StatusFiles : AutoCommitStatusReturn(s, ok, files)
    \/ \E s \in Slots, ok \in BOOLEAN, ignored \in BOOLEAN : AddReturn(s, ok, ignored)
    \/ \E s \in Slots, ok \in BOOLEAN : CommitReturn(s, ok)
    \/ \E s \in Slots, ok \in BOOLEAN, remotes \in RemoteLists : GetRemotesReturn(s, ok, remotes)
    \/ \E s \in Slots, ok \in BOOLEAN : AddConfigReturn(s, ok)
    \/ \E s \in Slots, ok \in BOOLEAN, tracking \in BOOLEAN,
          current \in {branch} : PushStatusReturn(s, ok, tracking, current)
    \/ \E s \in Slots, ok \in BOOLEAN : PushReturn(s, ok)

InitStore == InitWith(AutoConfigs, {<<"t">>}, {<<"u">>})

SpecStore == InitStore /\ [][NextStore]_vars

\* the tokens typed into the settings tab and the logins they validate as
Tokens == {EmptyString, <<"t">>, <<"s", "s">>}
Logins == {<<"u">>}

\* a repository with and without its HTTPS remote
TokenRemoteLists == {<<>>, <<Remote(origin, httpsUrl, httpsUrl)>>}

\* pushes racing with each other and with edits of the token
NextToken ==
    \/ \E s \in Slots, isRepo \in BOOLEAN : InitializeStep(s, isRepo)
    \/ \E value \in Tokens : SetGithubToken(value)
    \/ \E ok \in BOOLEAN, login \in Logins : ValidateReturn(ok, login)
    \/ \E f \in FolderIds, s \in Slots : push(f, s)
    \/ \E s \in Slots, ok \in BOOLEAN, remotes \in TokenRemoteLists : GetRemotesReturn(s, ok, remotes)
    \/ \E s \in Slots, ok \in BOOLEAN : AddConfigReturn(s, ok)
    \/ \E s \in Slots, ok \in BOOLEAN, tracking \in {TRUE},
          current \in {branch} : PushStatusReturn(s, ok, tracking, current)
    \/ \E s \in Slots, ok \in BOOLEAN : PushReturn(s, ok)

TokenConfigs == {FolderRepoConfig(f, EmptyString, FALSE, 0) : f \in FolderIds}

InitToken == InitWith(TokenConfigs, {<<"t">>}, Logins)

SpecToken == InitToken /\ [][NextToken]_vars

\* what status.current can be: a branch, or nothing
Currents == {EmptyString, branch}

\* pushes without credentials, on every answer of the status query
NextPush ==
    \/ \E s \in Slots, isRepo \in BOOLEAN : InitializeStep(s, isRepo)
    \/ \E f \in FolderIds, s \in Slots : push(f, s)
    \/ \E s \in Slots, ok \in BOOLEAN, tracking \in BOOLEAN,
          current \in Currents : PushStatusReturn(s, ok, tracking, current)
    \/ \E s \in Slots, ok \in BOOLEAN : PushReturn(s, ok)

InitPush == InitWith(CredConfigs, {EmptyString}, {EmptyString})

SpecPush == InitPush /\ [][NextPush]_vars

\* the codes of a status record's index and working_dir; "" is a missing
\* code, "C" a code mapStatus has no case for
Codes == {"", " ", "?", "U", "M", "A", "D", "R", "C"}
FewCodes == {" ", "?", "U", "M"}

FileRecords(codes) ==
    [path : {<<"n">>, <<"o">>}, index : codes, working_dir : codes]

RECURSIVE SeqsUpTo(_, _)
SeqsUpTo(S, n) ==
    IF n = 0 THEN {<<>>}
    ELSE LET shorter == SeqsUpTo(S, n - 1)
         IN shorter \cup {Append(q, x) : q \in shorter, x \in S}

\* status.files: every single record, and lists of a few kinds of records
StatusInputs ==
    {<<r>> : r \in FileRecords(Codes)} \cup SeqsUpTo(FileRecords(FewCodes), MaxFiles)

\* the status queries of the views, on every answer in StatusInputs
NextStatus ==
    \/ \E s \in Slots, isRepo \in BOOLEAN : InitializeStep(s, isRepo)
    \/ \E f \in FolderIds, s \in Slots : getStatus(f, s)
    \/ \E s \in Slots, ok \in BOOLEAN, current \in {branch} : GetStatusReturn(s, ok, current)

StatusConfigs == {FolderRepoConfig(f, origin, FALSE, 0) : f \in FolderIds}

InitStatus ==
    /\ InitRegistry(StatusConfigs, {EmptyString}, {EmptyString})
    /\ worktree \in StatusInputs
    /\ gitignore = NoIgnoreFiles
    /\ blobs = CleanBlobs

SpecStatus == InitStatus /\ [][NextStatus]_vars

\* the folders and files of the ownership question
OwnerFolders == {EmptyString, <<"a">>, <<"a", "/", "b">>, <<"a", "b">>}

FilePaths ==
    {<<"a">>, <<"a", "b">>, <<"a", "/", "b">>, <<"z">>, <<"a", "/", "x">>,
     <<"a", "b", "/", "x">>, <<"a", "/", "b", "/", "c">>, <<"a", "/", "b", "c">>}

MaxOwnerRepos == 3

OwnerConfigs == {FolderRepoConfig(f, origin, FALSE, 0) : f \in OwnerFolders}

\* persisted lists of up to MaxOwnerRepos distinct folders, in every order
OwnerLists ==
    {s \in UNION {[1..n -> OwnerConfigs] : n \in 0..MaxOwnerRepos} :
        \A i, j \in DOMAIN s : i # j => s[i].folderPath # s[j].folderPath}

NextOwner ==
    \/ \E s \in Slots, isRepo \in BOOLEAN : InitializeStep(s, isRepo)
    \/ \E filePath \in FilePaths : FileMenu(filePath)

InitOwner ==
    /\ InitLoaded(OwnerLists, {EmptyString}, {EmptyString})
    /\ worktree = <<>>
    /\ gitignore = NoIgnoreFiles
    /\ blobs = CleanBlobs

SpecOwner == InitOwner /\ [][NextOwner]_vars

\* the paths handed to the ignore-list operations
RelativePaths == {<<"x">>}

KeyedConfigs == {FolderRepoConfig(f, origin, FALSE, 0) : f \in FolderIds}

\* every registry operation keyed by folderPath, on registered and on
\* unregistered folders, one call at a time
NextKeyed ==
    \/ \E s \in Slots, isRepo \in BOOLEAN : InitializeStep(s, isRepo)
    \/ \E f \in FolderIds, s \in {1} :
          \/ getStatus(f, s) \/ stage(f, s) \/ stageAll(f, s) \/ unstage(f, s)
          \/ unstageAll(f, s) \/ discard(f, s) \/ commit(f, s) \/ checkout(f, s)
          \/ getDiff(f, s) \/ getLog(f, s) \/ getBranch(f, s) \/ getBranches(f, s)
          \/ addRemote(f, s) \/ detectRemotes(f, s) \/ push(f, s) \/ pull(f, s)
          \/ checkIgnored(f, s)
    \/ \E f \in FolderIds, p \in RelativePaths :
          \/ checkExplicitlyIgnored(f, p)
          \/ addToGitignore(f, p)
          \/ removeFromGitignore(f, p)
    \/ \E s \in Slots, ok \in BOOLEAN :
          \/ GetStatusReturn(s, ok, branch)
          \/ AddReturn(s, ok, FALSE) \/ ResetReturn(s, ok) \/ CheckoutReturn(s, ok)
          \/ CommitReturn(s, ok) \/ QueryReturn(s, ok)
          \/ GetBranchReturn(s, ok, branch)
          \/ PushStatusReturn(s, ok, TRUE, branch)
          \/ PushReturn(s, ok) \/ PullReturn(s, ok)
          \/ CheckIgnoreReturn(s, ok)

InitKeyed == InitWith(KeyedConfigs, {EmptyString}, {EmptyString})

SpecKeyed == InitKeyed /\ [][NextKeyed]_vars

\* ignore files found on disk: none, an empty one, one without a trailing
\* newline, ones that list the path as it is, as a folder, or between
\* blanks, and one with Windows line ends
IgnoreFiles ==
    {NoFile, EmptyString, <<"a">>, <<"x", Newline>>, <<"x", "/", Newline>>,
     <<" ", "x", " ", Newline>>, <<"a", "\r", Newline, "x">>, <<"x", "y", Newline>>}

\* the paths the file menu hands to the ignore-list methods: a plain name and
\* a name that starts with a blank
IgnorePaths == {<<"x">>, <<" ", "x">>}

IgnoreConfigs == {FolderRepoConfig(EmptyString, origin, FALSE, 0)}

\* the file menu's ignore-list operations on the repository at the vault root
NextIgnore ==
    \/ \E s \in Slots, isRepo \in BOOLEAN : InitializeStep(s, isRepo)
    \/ \E p \in IgnorePaths :
          \/ checkExplicitlyIgnored(EmptyString, p)
          \/ addToGitignore(EmptyString, p)
          \/ removeFromGitignore(EmptyString, p)

InitIgnore ==
    /\ InitRegistry(IgnoreConfigs, {EmptyString}, {EmptyString})
    /\ worktree = <<>>
    /\ \E file \in IgnoreFiles :
          gitignore = [d \in WorkingDirs |-> IF d = vaultBasePath THEN file ELSE NoFile]
    /\ blobs = CleanBlobs

SpecIgnore == InitIgnore /\ [][NextIgnore]_vars

\* the modal looks for the remotes of a directory while repositories are
\* registered and used
NextDetect ==
    \/ \E s \in Slots, isRepo \in BOOLEAN : InitializeStep(s, isRepo)
    \/ \E d \in WorkingDirs, s \in Slots : detectRemotesFromPath(d, s)
    \/ \E s \in Slots, isRepo \in {"true", "false", "failed"} : DetectCheckReturn(s, isRepo)
    \/ \E s \in Slots, ok \in BOOLEAN, remotes \in RemoteLists :
          DetectGetRemotesReturn(s, ok, remotes)
    \/ \E c \in 1..MaxConfigs : RemoveButton(c)

InitDetect == InitWith(KeyedConfigs, {EmptyString}, {EmptyString})

SpecDetect == InitDetect /\ [][NextDetect]_vars

\* the user's stage, unstage, discard, commit, push and pull, one at a time,
\* with and without a token, every command of theirs succeeding or failing
NextManual ==
    \/ \E s \in Slots, isRepo \in BOOLEAN : InitializeStep(s, isRepo)
    \/ \E f \in FolderIds, s \in {1} :
          \/ stage(f, s) \/ stageAll(f, s) \/ unstage(f, s) \/ unstageAll(f, s)
          \/ discard(f, s) \/ commit(f, s) \/ push(f, s) \/ pull(f, s)
    \/ \E s \in Slots, ok \in BOOLEAN :
          \/ AddReturn(s, ok, FALSE) \/ ResetReturn(s, ok) \/ CheckoutReturn(s, ok)
          \/ CommitReturn(s, ok) \/ AddConfigReturn(s, ok)
          \/ PushReturn(s, ok) \/ PullReturn(s, ok)
          \/ \E tracking \in BOOLEAN : PushStatusReturn(s, ok, tracking, branch)
          \/ \E remotes \in RemoteLists : GetRemotesReturn(s, ok, remotes)

InitManual == InitWith(CredConfigs, {EmptyString, <<"t">>}, {<<"u">>})

SpecManual == InitManual /\ [][NextManual]_vars

\* one repository with a timer, auto-push and a token; its cycles overlap, fail
\* at any command, and the repository is removed under them
CycleConfigs == {FolderRepoConfig(EmptyString, origin, TRUE, MaxInterval)}

NextCycle ==
    \/ NextStore
    \/ \E c \in 1..MaxConfigs : RemoveButton(c)

InitCycle == InitWith(CycleConfigs, {<<"t">>}, {<<"u">>})

SpecCycle == InitCycle /\ [][NextCycle]_vars

\* commit message templates: "backup: {{date}}", none, one without a token,
\* one with two tokens, one with a token cut short
Templates ==
    {<<"b", "a", "c", "k", "u", "p", ":", " ">> \o DateToken,
     EmptyString,
     <<"b", "a", "c", "k", "u", "p">>,
     DateToken \o <<" ">> \o DateToken,
     <<"{", "{", "d", "a", "t", "e", "}", " ">> \o DateToken}

\* one repository with a timer and any of the templates
TemplateConfigs ==
    {[FolderRepoConfig(EmptyString, origin, FALSE, MaxInterval)
         EXCEPT !.commitMessageTemplate = t] : t \in Templates}

\* the scheduler's cycles up to the commit
NextTemplate ==
    \/ \E s \in Slots, isRepo \in BOOLEAN : InitializeStep(s, isRepo)
    \/ \E t \in 1..Len(timerCfg), s \in Slots : TimerFire(t, s)
    \/ \E s \in Slots, ok \in BOOLEAN, files \in StatusFiles : AutoCommitStatusReturn(s, ok, files)
    \/ \E s \in Slots, ok \in BOOLEAN, ignored \in BOOLEAN : AddReturn(s, ok, ignored)
    \/ \E s \in Slots, ok \in BOOLEAN : CommitReturn(s, ok)

InitTemplate == InitWith(TemplateConfigs, {EmptyString}, {EmptyString})

SpecTemplate == InitTemplate /\ [][NextTemplate]_vars

\* the file at HEAD, in the index and on disk: absent or present in each, with
\* staged and unstaged changes in every combination
Blobs ==
    [head : {NoFile, <<"h">>},
     index : {NoFile, <<"h">>, <<"s">>},
     working : {NoFile, <<"h">>, <<"s">>, <<"w">>}]

\* the source control view's buttons on one file of a loaded repository
NextDiscard ==
    \/ \E s \in Slots, isRepo \in BOOLEAN : InitializeStep(s, isRepo)
    \/ \E f \in FolderIds, s \in Slots :
          \/ stage(f, s)
          \/ unstage(f, s)
          \/ commit(f, s)
          \/ discard(f, s)
    \/ \E s \in Slots, ok \in BOOLEAN, ignored \in BOOLEAN : AddReturn(s, ok, ignored)
    \/ \E s \in Slots, ok \in BOOLEAN : ResetReturn(s, ok)
    \/ \E s \in Slots, ok \in BOOLEAN : CommitReturn(s, ok)
    \/ \E s \in Slots, ok \in BOOLEAN : CheckoutReturn(s, ok)

InitDiscard ==
    /\ InitRegistry(CycleConfigs, {EmptyString}, {EmptyString})
    /\ worktree = <<>>
    /\ gitignore = NoIgnoreFiles
    /\ blobs \in Blobs

SpecDiscard == InitDiscard /\ [][NextDiscard]_vars

\* the vault root's repository, with and without auto-push
ViewConfigs == {FolderRepoConfig(EmptyString, origin, p, 0) : p \in BOOLEAN}

\* what the commit input may hold: nothing, a blank, a message
CommitInputs == {EmptyString, <<" ">>, <<"m">>}

\* the view's Commit and Commit all, one action at a time, while the settings
\* tab toggles auto-push and removes the repository
NextView ==
    \/ \E s \in Slots, isRepo \in BOOLEAN : InitializeStep(s, isRepo)
    \/ \E f \in FolderIds, value \in CommitInputs, s \in {1} :
          commitChanges(f, value, s) \/ commitAll(f, value, s)
    \/ \E s \in Slots, ok \in BOOLEAN :
          \/ AddReturn(s, ok, FALSE) \/ CommitReturn(s, ok) \/ AddConfigReturn(s, ok)
          \/ PushReturn(s, ok)
          \/ \E tracking \in BOOLEAN : PushStatusReturn(s, ok, tracking, branch)
          \/ \E remotes \in TokenRemoteLists : GetRemotesReturn(s, ok, remotes)
    \/ \E c \in 1..MaxConfigs, value \in BOOLEAN : SetAutoPush(c, value)
    \/ \E c \in 1..MaxConfigs : RemoveButton(c)

InitView == InitWith(ViewConfigs, {EmptyString, <<"t">>}, {<<"u">>})

SpecView == InitView /\ [][NextView]_vars

\* addRepo (from initialize and from the modal), removeRepo and destroy, with
\* no settings edit
NextRegistry ==
    \/ \E s \in Slots, isRepo \in BOOLEAN : InitializeStep(s, isRepo)
    \/ \E f \in FolderIds, mode \in {"existing", "init", "clone"},
          remoteUrl \in {EmptyString, sshUrl}, githubRemoteUrl \in {EmptyString, httpsUrl},
          s \in Slots : handleAdd(f, mode, remoteUrl, githubRemoteUrl, s)
    \/ \E s \in Slots, isRepo \in BOOLEAN : ModalAddRepoReturn(s, isRepo)
    \/ \E s \in Slots, ok \in BOOLEAN : AddRemoteReturn(s, ok)
    \/ \E c \in Configs : RemoveButton(c)
    \/ Onunload

SpecRegistry == Init /\ [][NextRegistry]_vars

\* the add-repository workflow and the settings tab's Remove button in a
\* vault that starts without repositories, with a token configured
NextModal ==
    \/ \E f \in FolderIds, mode \in {"existing", "init", "clone"},
          remoteUrl \in {EmptyString, sshUrl}, githubRemoteUrl \in {EmptyString, httpsUrl},
          s \in Slots : handleAdd(f, mode, remoteUrl, githubRemoteUrl, s)
    \/ \E s \in Slots, isRepo \in BOOLEAN : ModalAddRepoReturn(s, isRepo)
    \/ \E s \in Slots, ok \in BOOLEAN : AddRemoteReturn(s, ok)
    \/ \E s \in Slots, ok \in BOOLEAN, remotes \in TokenRemoteLists : GetRemotesReturn(s, ok, remotes)
    \/ \E s \in Slots, ok \in BOOLEAN : AddConfigReturn(s, ok)
    \/ \E c \in Configs : RemoveButton(c)

InitModal == InitWith({}, {<<"t">>}, {<<"u">>})

SpecModal == InitModal /\ [][NextModal]_vars

\* the two folderIds of the vault root: "" and the root sentinel "/"
RootFolders == {EmptyString, Slash}

RootConfigs == {FolderRepoConfig(f, origin, FALSE, MaxInterval) : f \in RootFolders}

\* repositories loaded under either name of the vault root, the file menu
\* and the Remove button
NextRoot ==
    \/ \E s \in Slots, isRepo \in BOOLEAN : InitializeStep(s, isRepo)
    \/ \E filePath \in FilePaths : FileMenu(filePath)
    \/ \E c \in Configs : RemoveButton(c)

InitRoot == InitWith(RootConfigs, {EmptyString}, {EmptyString})

SpecRoot == InitRoot /\ [][NextRoot]_vars

\* what the cycle's status query may report: nothing, a modified file, an
\* untracked file, a conflicted file, a conflicted file next to a modified one
ConflictFiles ==
    {<<>>,
     <<[path |-> <<"n">>, index |-> " ", working_dir |-> "M"]>>,
     <<[path |-> <<"n">>, index |-> "?", working_dir |-> "?"]>>,
     <<[path |-> <<"n">>, index |-> "U", working_dir |-> "U"]>>,
     <<[path |-> <<"n">>, index |-> "M", working_dir |-> " "],
       [path |-> <<"o">>, index |-> "A", working_dir |-> "U"]>>}

\* the scheduler's cycles up to the commit, during a merge
NextConflict ==
    \/ \E s \in Slots, isRepo \in BOOLEAN : InitializeStep(s, isRepo)
    \/ \E t \in 1..Len(timerCfg), s \in Slots : TimerFire(t, s)
    \/ \E s \in Slots, ok \in BOOLEAN, files \in ConflictFiles : AutoCommitStatusReturn(s, ok, files)
    \/ \E s \in Slots, ok \in BOOLEAN, ignored \in BOOLEAN : AddReturn(s, ok, ignored)
    \/ \E s \in Slots, ok \in BOOLEAN : CommitReturn(s, ok)

ConflictConfigs == {FolderRepoConfig(f, origin, FALSE, MaxInterval) : f \in FolderIds}

InitConflict == InitWith(ConflictConfigs, {EmptyString}, {EmptyString})

SpecConflict == InitConflict /\ [][NextConflict]_vars

(* ============================ the claims =============================== *)

Registered == {repos[i].inst : i \in 1..Len(repos)}

\* the folder whose repository timer t commits
TimerFolder(t) == configs[timerCfg[t]].folderPath

\* C2: every registered instance holds a scheduler timer if and only if its
\* config's autoCommitInterval is greater than 0.
C2_TimerIffPositiveInterval ==
    \A inst \in Registered :
        (inst.autoCommitTimer # NoTimer /\ inst.autoCommitTimer \in timers)
            <=> configs[inst.config].autoCommitInterval > 0

\* C3: removeRepo(folderId) cancels the instance's timer before it deletes the
\* instance, so that afterwards no timer for that folderId is armed and no
\* firing starts for it; on an unregistered folderId it changes nothing.
C3_RemoveRepoDisarmsFolder ==
    [][\A c \in Configs :
          RemoveButton(c) =>
              /\ \A t \in timers' : TimerFolder(t) # configs[c].folderPath
              /\ ~MapHas(repos, configs[c].folderPath) =>
                     repos' = repos /\ timers' = timers]_vars

\* C4: after destroy() returns, no auto-commit timer this registry ever
\* created is armed and the instance set is empty.
C4_DestroyDisarmsEverything ==
    [][Onunload => timers' = {} /\ repos' = <<>>]_vars

\* C5: the registry holds at most one instance per folderId: getAllPaths has
\* no duplicates, whatever was added, re-added, removed or destroyed.
C5_OneInstancePerFolder ==
    \A i, j \in 1..Len(getAllPaths) : getAllPaths[i] = getAllPaths[j] => i = j

\* a folder was registered twice (the first time with a timer, the second
\* time from another config) and the registry holds the second instance
C5_Witness ==
    \E i \in 1..Len(repos), t \in 1..Len(timerCfg) :
        /\ repos[i].key = TimerFolder(t)
        /\ repos[i].inst.config # timerCfg[t]

\* C6: when an auto-commit cycle fails, the repository's timer stays armed:
\* as long as the instance stays registered, its timer fires again and the
\* firing starts a new cycle.
C6_FailureKeepsTimerArmed ==
    \A t \in failedTimers :
        (\E inst \in Registered : inst.autoCommitTimer = t) =>
            /\ t \in timers
            /\ (\E s \in Slots : calls[s] = Idle) =>
                   ENABLED (\E s \in Slots :
                               TimerFire(t, s) /\ calls'[s].pc = "status")

\* after a failed cycle, a later firing of the same timer got through status,
\* stage-all and commit to its push
C6_Witness ==
    \E s \in Slots :
        /\ calls[s].kind = "autoCommit"
        /\ calls[s].refire
        /\ calls[s].ops = <<"status", "add", "commit", "status", "push">>

\* C7: an auto-commit firing whose status query reports zero changed files
\* issues no stage, no commit and no push.
C7_NoChangesNoCommit ==
    /\ \A s \in Slots :
          calls[s].kind = "autoCommit" /\ Len(calls[s].ops) > 1 =>
              Len(calls[s].files) > 0
    /\ settled.kind = "autoCommit" /\ settled.files = <<>> =>
          settled.last \in {"none", "status"}

\* a firing has ended normally right after a status query without files
C7_Witness ==
    /\ settled.kind = "autoCommit"
    /\ settled.result = "ok"
    /\ settled.last = "status"
    /\ settled.files = <<>>

IsPrefix(p, q) == Len(p) <= Len(q) /\ SubSeq(q, 1, Len(p)) = p

\* the commands of one complete cycle, with the ones configureCredentials adds
CycleOrders ==
    {<<"status", "add", "commit">> \o cc \o <<"status", p>> :
        cc \in {<<>>, <<"getRemotes">>, <<"getRemotes", "addConfig">>},
        p \in {"push", "push -u"}}

\* C8: a cycle issues status, stage-all, commit, push in this order, each one
\* only after the one before succeeded, and goes on to push only when the
\* repository's autoPush is true.
C8_CycleOrder ==
    /\ [](\A s \in Slots :
            calls[s].kind = "autoCommit" =>
                /\ \E o \in CycleOrders : IsPrefix(calls[s].ops, o)
                /\ Len(calls[s].res) = Len(calls[s].ops) - 1
                /\ \A k \in 1..Len(calls[s].res) : calls[s].res[k] = "ok")
    /\ [][\A s \in Slots :
            (/\ calls[s].kind = "autoCommit"
             /\ calls[s].pc = "commit"
             /\ calls'[s].kind = "autoCommit"
             /\ calls'[s].pc # "commit")
            => configs[calls[s].inst.config].autoPush]_vars

\* a cycle is at its push, after status, stage-all and commit
C8_Witness ==
    \E s \in Slots :
        /\ calls[s].kind = "autoCommit"
        /\ calls[s].pc = "push"
        /\ calls[s].ops = <<"status", "add", "commit", "status", "push -u">>
        /\ calls[s].res = <<"ok", "ok", "ok", "ok">>

\* the commands that change a repository's index, worktree, history or remote
MutatingCommands == {"add", "reset", "checkout", "commit", "push", "pull"}

InFlight(s) == calls[s].kind \notin {"idle", "initialize", "modal"}

\* C1: for every folderId at most one mutating operation (stage, unstage,
\* discard, commit, checkout, push, pull, or an auto-commit cycle past its
\* status query) is in flight at any time.
C1_OneMutatingOperationPerFolder ==
    \A s, r \in Slots :
        (/\ InFlight(s) /\ calls[s].pc \in MutatingCommands
         /\ InFlight(r) /\ calls[r].pc \in MutatingCommands
         /\ calls[s].folder = calls[r].folder)
        => s = r

\* C9: while the credential file exists it lies outside the working directory
\* of every registered repository, and no repository has it in its index or
\* its history.
C9_CredentialFileOutsideRepositories ==
    /\ credFile # NoFile =>
          \A inst \in Registered : ~Under(credPath, inst.absolutePath)
    /\ credStaged = {}
    /\ credCommitted = {}

\* the call whose configureCredentials took the step, where it awaits addConfig
Configuring(s) ==
    IF InFlight(s) /\ calls[s].pc = "addConfig" THEN calls[s] ELSE calls'[s]

C11_ConfigureCredentialsIdempotent ==
    /\ credFile \in {NoFile, credLine(githubUsername, githubToken)}
    /\ \A d \in DOMAIN helper : helper[d] \in {NoHelper, credentialHelper}

\* a call wrote the file for a repository whose helper entry an earlier call,
\* which has ended, had already set
C11_Witness ==
    \E s \in Slots :
        /\ InFlight(s) /\ calls[s].pc = "addConfig"
        /\ helper[calls[s].pinst.absolutePath] = credentialHelper
        /\ credFile = credLine(calls[s].usr, calls[s].tok)
        /\ \A r \in Slots \ {s} : calls[r] = Idle

\* a complete credential line: one pair of a user name and a token, both set
CompleteLines ==
    {credLine(u, t) : u \in Logins, t \in Tokens \ {EmptyString}}

\* slot s takes a step of configureCredentials that writes the file
WritesFile(s) ==
    /\ InFlight(s) /\ calls[s].pc = "getRemotes"
    /\ calls'[s] # calls[s]
    /\ calls'[s].kind = calls[s].kind /\ calls'[s].pc = "addConfig"

\* C12 (as stated): whenever a configureCredentials call writes the credential
\* file, the file is the one complete line of the user name and token that are
\* configured at that moment.
C12_FileHoldsConfiguredPair ==
    [][\A s \in Slots :
          WritesFile(s) => credFile' = credLine(githubUsername', githubToken')]_vars

\* C12 (amended): under every interleaving of configureCredentials calls and
\* token edits the credential file is absent or exactly one complete line; a
\* call reads the configured pair when it starts and writes the line of that
\* pair, never a partial line or a mixture of two writes.
C12_FileIsOneCompleteLine ==
    /\ [](credFile = NoFile \/ credFile \in CompleteLines)
    /\ [][\A s \in Slots :
            /\ (/\ InFlight(s)' /\ calls'[s].pc = "getRemotes"
                /\ calls'[s] # calls[s])
               => /\ calls'[s].tok = githubToken
                  /\ calls'[s].usr = githubUsername
            /\ WritesFile(s) => credFile' = credLine(calls[s].usr, calls[s].tok)]_vars

\* two repositories' calls, started under different tokens, have both
\* written the file; it holds the line of one of them
C12_Witness ==
    \E s, r \in Slots :
        /\ InFlight(s) /\ calls[s].pc = "addConfig"
        /\ InFlight(r) /\ calls[r].pc = "addConfig"
        /\ calls[s].folder # calls[r].folder
        /\ calls[s].tok # calls[r].tok
        /\ credFile = credLine(calls[s].usr, calls[s].tok)

\* the commands that talk to the remote
TransferCommands == {"push", "push -u", "pull"}

\* C13: when push or pull has gone past configureCredentials, every command
\* before succeeded (a failed remote lookup or config write ends the call);
\* with token and user name set the remote lookup came first; for an HTTPS
\* remote the credential file and the repository's helper entry are in place;
\* and the transfer is the last command the call issues.
C13_CredentialsBeforeTransfer ==
    \A s \in Slots :
        (/\ InFlight(s) /\ calls[s].kind \in {"push", "pull"}
         /\ calls[s].pc \in {"pushStatus", "push", "pull"})
        => LET c == calls[s]
           IN /\ Len(c.res) = Len(c.ops) - 1
              /\ \A k \in 1..Len(c.res) : c.res[k] = "ok"
              /\ (githubToken # EmptyString /\ githubUsername # EmptyString)
                    => c.ops[1] = "getRemotes"
              /\ StartsWith(c.found, https) =>
                    /\ c.ops[2] = "addConfig"
                    /\ credFile # NoFile
                    /\ helper[c.pinst.absolutePath] = credentialHelper
              /\ \A k \in 1..Len(c.ops) :
                    c.ops[k] \in TransferCommands => k = Len(c.ops)

\* a pull was issued after the remote lookup and the config write
C13_Witness ==
    \E s \in Slots :
        /\ InFlight(s) /\ calls[s].kind = "pull" /\ calls[s].pc = "pull"
        /\ calls[s].ops = <<"getRemotes", "addConfig", "pull">>
        /\ calls[s].res = <<"ok", "ok">>

\* the calls that are at their git.push
Pushing == {s \in Slots : InFlight(s) /\ calls[s].pc = "push"}

\* the remote name a call's push goes by: the configured one, else "origin"
PushRemote(c) ==
    IF configs[c.pinst.config].remoteName = EmptyString THEN origin
    ELSE configs[c.pinst.config].remoteName

\* C14 (as stated): push issues a set-upstream push naming the configured
\* remote name and the current branch the status reports exactly when the
\* status reports no tracking branch, and a plain push without arguments
\* exactly when it reports one.
C14_PushNamesCurrentBranch ==
    \A s \in Pushing :
        LET c == calls[s]
        IN IF c.tracking
           THEN c.ops[Len(c.ops)] = "push" /\ c.args = <<>>
           ELSE /\ c.ops[Len(c.ops)] = "push -u"
                /\ c.args = <<"-u", PushRemote(c), c.current>>

\* C14 (amended): as stated, with "main" as the branch when the status
\* reports no current branch.
C14_PushNamesCurrentBranchOrMain ==
    \A s \in Pushing :
        LET c == calls[s]
        IN IF c.tracking
           THEN c.ops[Len(c.ops)] = "push" /\ c.args = <<>>
           ELSE /\ c.ops[Len(c.ops)] = "push -u"
                /\ c.args = <<"-u", PushRemote(c),
                              IF c.current = EmptyString THEN main ELSE c.current>>

\* a set-upstream push to a configured remote on the reported branch
C14_Witness ==
    \E s \in Pushing :
        /\ calls[s].kind = "push"
        /\ ~calls[s].tracking
        /\ calls[s].args = <<"-u", upstream, branch>>

\* getStatus has just returned a RepoStatus
StatusReturned == settled.kind = "getStatus" /\ settled.result = "ok"

\* what the claims say of a raw record
IsUntracked(r) == r.index = "?" /\ r.working_dir = "?"
IsConflicted(r) == ~IsUntracked(r) /\ (r.index = "U" \/ r.working_dir = "U")
DenotesChange(code) == code \notin {"", " ", "?"}
IsStaged(r) == ~IsUntracked(r) /\ ~IsConflicted(r) /\ DenotesChange(r.index)
IsChanged(r) == ~IsUntracked(r) /\ ~IsConflicted(r) /\ DenotesChange(r.working_dir)

PathsOf(entries) == [i \in 1..Len(entries) |-> entries[i].path]

\* C15: getStatus classifies each raw record by precedence: both codes "?"
\* gives only an untracked entry; otherwise a code "U" gives only a conflicted
\* entry; otherwise a staged entry iff the index code is present and not
\* space or "?", and independently a changed entry iff the working-tree code
\* is; the buckets are these records in the order of the input.
C15_ClassificationPrecedence ==
    StatusReturned =>
        LET v == settled.value
            files == settled.files
        IN /\ Len(v.untracked) = Len(SelectSeq(files, IsUntracked))
           /\ Len(v.conflicted) = Len(SelectSeq(files, IsConflicted))
           /\ PathsOf(v.staged) = PathsOf(SelectSeq(files, IsStaged))
           /\ PathsOf(v.changed) = PathsOf(SelectSeq(files, IsChanged))

\* a record with a "U" index code and an "M" working-tree code came back as
\* conflicted and nothing else
C15_Witness ==
    /\ StatusReturned
    /\ settled.files = <<[path |-> <<"n">>, index |-> "U", working_dir |-> "M"]>>
    /\ Len(settled.value.conflicted) = 1
    /\ settled.value.staged = <<>> /\ settled.value.changed = <<>>
    /\ settled.value.untracked = <<>>

NoDuplicates(q) == \A i, j \in 1..Len(q) : q[i] = q[j] => i = j

VaultPathsOf(entries) == [i \in 1..Len(entries) |-> entries[i].vaultPath]

Range(q) == {q[i] : i \in 1..Len(q)}

\* C16: for raw records with pairwise distinct paths, no bucket lists a path
\* twice, an untracked or conflicted path is in no other bucket, and a path is
\* in both staged and changed only when both of its codes denote a change.
C16_BucketsDisjoint ==
    (StatusReturned /\ NoDuplicates(PathsOf(settled.files))) =>
        LET v == settled.value
            staged == VaultPathsOf(v.staged)
            changed == VaultPathsOf(v.changed)
        IN /\ NoDuplicates(staged) /\ NoDuplicates(changed)
           /\ NoDuplicates(v.untracked) /\ NoDuplicates(v.conflicted)
           /\ Range(v.untracked) \cap
                 (Range(v.conflicted) \cup Range(staged) \cup Range(changed)) = {}
           /\ Range(v.conflicted) \cap (Range(staged) \cup Range(changed)) = {}
           /\ \A i \in 1..Len(v.staged), j \in 1..Len(v.changed) :
                 v.staged[i].path = v.changed[j].path =>
                     \E r \in Range(settled.files) :
                         /\ r.path = v.staged[i].path
                         /\ DenotesChange(r.index) /\ DenotesChange(r.working_dir)

\* two files came back, one of them staged and changed, the other untracked
C16_Witness ==
    /\ StatusReturned
    /\ Len(settled.files) = 2 /\ NoDuplicates(PathsOf(settled.files))
    /\ Len(settled.value.staged) = 1 /\ Len(settled.value.changed) = 1
    /\ settled.value.staged[1].path = settled.value.changed[1].path
    /\ Len(settled.value.untracked) = 1

\* the display status the spec gives a code, in FileChangeType's letters:
\* Modified "M", Added "A", Deleted "D", Renamed "R", Untracked "?", Unmerged "U"
DisplayOf(code) ==
    IF code \in {"M", "A", "D", "R", "?", "U"} THEN code ELSE "M"

\* C17: the display status of every staged entry is the mapping of its index
\* code, that of every changed entry the mapping of its working-tree code,
\* and the codes are the raw record's.
C17_DisplayStatus ==
    StatusReturned =>
        LET v == settled.value
            raw(e) == [path |-> e.path, index |-> e.indexStatus,
                       working_dir |-> e.workingTreeStatus]
        IN /\ \A i \in 1..Len(v.staged) :
                 /\ v.staged[i].displayStatus = DisplayOf(v.staged[i].indexStatus)
                 /\ raw(v.staged[i]) \in Range(settled.files)
           /\ \A i \in 1..Len(v.changed) :
                 /\ v.changed[i].displayStatus = DisplayOf(v.changed[i].workingTreeStatus)
                 /\ raw(v.changed[i]) \in Range(settled.files)

\* a staged entry whose code has no case of its own is shown as Modified, next
\* to a changed entry shown as Deleted
C17_Witness ==
    /\ StatusReturned
    /\ Len(settled.value.staged) = 1 /\ Len(settled.value.changed) = 1
    /\ settled.value.staged[1].indexStatus = "C"
    /\ settled.value.staged[1].displayStatus = "M"
    /\ settled.value.changed[1].displayStatus = "D"

\* C18: every staged and changed entry carries the path relative to the
\* repository and the vault path folderId + "/" + path, or the path alone when
\* folderId is ""; untracked and conflicted hold the vault paths of their
\* records.
C18_VaultPaths ==
    StatusReturned =>
        LET v == settled.value
            f == settled.folder
            vault(path) == IF f = EmptyString THEN path ELSE f \o <<"/">> \o path
            vaults(records) == [i \in 1..Len(records) |-> vault(records[i].path)]
        IN /\ v.folderPath = f
           /\ \A i \in 1..Len(v.staged) : v.staged[i].vaultPath = vault(v.staged[i].path)
           /\ \A i \in 1..Len(v.changed) : v.changed[i].vaultPath = vault(v.changed[i].path)
           /\ PathsOf(v.staged) = PathsOf(SelectSeq(settled.files, IsStaged))
           /\ PathsOf(v.changed) = PathsOf(SelectSeq(settled.files, IsChanged))
           /\ v.untracked = vaults(SelectSeq(settled.files, IsUntracked))
           /\ v.conflicted = vaults(SelectSeq(settled.files, IsConflicted))

\* folder "a" with one modified tracked file and one untracked file: one
\* Modified changed entry, untracked = ["a/o"], nothing staged or conflicted
C18_Witness ==
    /\ StatusReturned
    /\ settled.folder = <<"a">>
    /\ settled.files = <<[path |-> <<"n">>, index |-> " ", working_dir |-> "M"],
                         [path |-> <<"o">>, index |-> "?", working_dir |-> "?"]>>
    /\ Len(settled.value.changed) = 1
    /\ settled.value.changed[1].path = <<"n">>
    /\ settled.value.changed[1].vaultPath = <<"a", "/", "n">>
    /\ settled.value.changed[1].displayStatus = "M"
    /\ settled.value.untracked = <<<<"a", "/", "o">>>>
    /\ settled.value.staged = <<>> /\ settled.value.conflicted = <<>>

\* the registered folders that qualify as owners of a path, as the claim
\* words it
Qualifies(folderId, filePath) ==
    \/ filePath = folderId
    \/ folderId = <<>>
    \/ /\ Len(filePath) > Len(folderId)
       /\ \A i \in 1..Len(folderId) : filePath[i] = folderId[i]
       /\ filePath[Len(folderId) + 1] = "/"

Owners(filePath) == {k \in Range(MapKeys(repos)) : Qualifies(k, filePath)}

\* C19: getRepoForFile returns the instance registered for the longest
\* folderId that equals the path, is "", or is followed by "/" at the start of
\* the path, and nothing when no registered folderId qualifies; this is a
\* function of the set of registered folderIds, whatever their order.
C19_LongestOwner ==
    settled.kind = "getRepoForFile" =>
        LET owners == Owners(settled.folder)
        IN IF owners = {}
           THEN settled.value = NoValue
           ELSE \E k \in owners :
                   /\ \A o \in owners : Len(o) <= Len(k)
                   /\ settled.value = MapGet(repos, k)

\* with "a/b", "" and "a" registered in that order, "a/b/c" resolved to the
\* instance of "a/b"
C19_Witness ==
    /\ settled.kind = "getRepoForFile"
    /\ MapKeys(repos) = <<<<"a", "/", "b">>, <<>>, <<"a">>>>
    /\ settled.folder = <<"a", "/", "b", "/", "c">>
    /\ settled.value = MapGet(repos, <<"a", "/", "b">>)

\* the registry operations keyed by folderId
KeyedKinds ==
    {"getStatus", "stage", "stageAll", "unstage", "unstageAll", "discard", "commit",
     "getDiff", "getLog", "getBranch", "getBranches", "checkout", "addRemote",
     "detectRemotes", "push", "pull", "checkExplicitlyIgnored", "checkIgnored",
     "addToGitignore", "removeFromGitignore"}

\* the two ignore-list queries
IgnoreQueries == {"checkExplicitlyIgnored", "checkIgnored"}

\* a keyed operation ended that had found no instance for its folderId
EndedUnregistered == settled.kind \in KeyedKinds /\ ~settled.registered

\* C20 as stated: every keyed registry operation called for a folderId with
\* no registered instance fails with the repository-not-found error, having
\* issued no command and accessed no file.
C20_UnregisteredFails ==
    EndedUnregistered => settled.result = "threw" /\ settled.last = "none"

\* C20 amended: called for a folderId with no registered instance, every
\* keyed registry operation ends having issued no command and accessed no
\* file; the ignore-list queries return false, every other one fails with the
\* repository-not-found error.
C20_UnregisteredFailsOrIsFalse ==
    EndedUnregistered =>
        /\ settled.last = "none"
        /\ IF settled.kind \in IgnoreQueries
           THEN settled.result = "ok" /\ settled.value = JsFalse
           ELSE settled.result = "threw"

\* with one folder registered, a push for the other one threw
C20_Witness ==
    /\ EndedUnregistered
    /\ settled.kind = "push"
    /\ Len(repos) = 1
    /\ ~MapHas(repos, settled.folder)
    /\ settled.result = "threw"

\* the step ended an addRepo that found its directory not to be a repository:
\* one of initialize's, or the one the add-repository modal awaits
AddRepoFailed(o) ==
    \/ o.kind = "addRepo" /\ o.result = "threw"
    \/ o.kind = "modal" /\ o.result = "threw" /\ o.last = "checkIsRepo"

\* C21: an addRepo on a directory that is not a repository fails and leaves
\* the registry as it was: no instance registered or replaced, no timer
\* started, and no command but the check was issued.
C21_FailedAddRepoChangesNothing ==
    [][AddRepoFailed(settled') =>
          /\ repos' = repos
          /\ timers' = timers
          /\ timerCfg' = timerCfg
          /\ \A s \in Slots :
                (calls[s].kind = "modal" /\ calls'[s] = Idle) =>
                    calls[s].ops = <<"checkIsRepo">>]_vars

\* the modal's addRepo for a folder that has an instance failed, and the
\* instance is still registered
C21_Witness ==
    /\ AddRepoFailed(settled)
    /\ settled.kind = "modal"
    /\ MapHas(repos, settled.folder)

\* initialize has just completed: its last addRepo ended and the loop is over
InitializeCompleted == settled.kind = "addRepo" /\ ~Initializing

\* the folders of the configurations whose addRepo succeeded, in order
Succeeded(res) ==
    LET ok == SelectSeq([i \in 1..Len(res) |-> i], LAMBDA i : res[i] = "ok")
    IN [k \in 1..Len(ok) |-> configs[settingsRepos[ok[k]]].folderPath]

IgnoreFileOf(o) == gitignore[resolveAbsolutePath(o.folder)]

Blank(ch) == ch \in {" ", "\t", "\r", "\n"}

\* a line without its leading and trailing blanks
Stripped(line) ==
    LET inked == {i \in 1..Len(line) : ~Blank(line[i])}
    IN IF inked = {} THEN <<>>
       ELSE SubSeq(line, CHOOSE i \in inked : \A j \in inked : i <= j,
                         CHOOSE i \in inked : \A j \in inked : j <= i)

\* the line lists the path: its trimmed content is the path or the path + "/"
Lists(line, path) == Stripped(line) = path \/ Stripped(line) = path \o <<"/">>

\* the non-empty lines of an ignore file (none when there is no file)
LineSet(file) ==
    IF file = NoFile THEN {} ELSE {l \in Range(split(file)) : l # <<>>}

\* this step is a removeFromIgnoreList(r, p) that follows an addToIgnoreList(r, p)
RemoveAfterAdd ==
    /\ settled.kind = "addToGitignore" /\ settled.result = "ok"
    /\ settled'.kind = "removeFromGitignore" /\ settled'.result = "ok"
    /\ settled'.folder = settled.folder /\ settled'.arg = settled.arg

Checked == settled'.kind = "checkExplicitlyIgnored" /\ settled'.registered

\* the query's answer is true iff some line of the file lists the path
AnswersByLines ==
    Checked =>
        settled'.value =
            IF \E l \in LineSet(IgnoreFileOf(settled)') : Lists(l, settled'.arg)
            THEN [value |-> "true"] ELSE [value |-> "false"]

\* the query follows an ignore-list operation `kind` on the same path
CheckedAfter(kind) ==
    /\ Checked
    /\ settled.kind = kind /\ settled.result = "ok"
    /\ settled.folder = settled'.folder /\ settled.arg = settled'.arg

\* C29 as stated: for every prior content and every relativePath,
\* isExplicitlyIgnored(r, p) is true right after addToIgnoreList(r, p) and
\* false right after removeFromIgnoreList(r, p); in general it is true iff
\* some line's trimmed content is p or p + "/".
C29_QueryReflectsLastOperation ==
    [][/\ AnswersByLines
       /\ CheckedAfter("addToGitignore") => settled'.value = [value |-> "true"]
       /\ CheckedAfter("removeFromGitignore") => settled'.value = [value |-> "false"]]_vars

\* a removeFromIgnoreList on a registered repository has just returned
Removed ==
    /\ settled.kind = "removeFromGitignore" /\ settled.registered
    /\ settled.result = "ok"

\* C30: removeFromIgnoreList(r, p) leaves exactly the original lines, in
\* order, except the lines that are exactly p or p + "/" (a line that differs
\* from p by surrounding blanks is kept), and does not create a missing file.
C30_RemoveKeepsOtherLines ==
    Removed =>
        IF settled.last = "existsSync"
        THEN IgnoreFileOf(settled) = NoFile
        ELSE split(IgnoreFileOf(settled)) =
                SelectSeq(split(settled.files),
                          LAMBDA l : l # settled.arg /\ l # settled.arg \o <<"/">>)

\* a detectRemotesFromPath call took a step
DetectStepped(s) == calls[s].kind = "detectRemotesFromPath" /\ calls'[s] # calls[s]

UserOperations ==
    {"stage", "stageAll", "unstage", "unstageAll", "discard", "commit", "push", "pull"}

\* C26: when a command of the external process fails during a user's stage,
\* unstage, commit, push, pull or discard on a registered repository, the
\* operation fails to its caller, at that command; it reports success only
\* when every command it awaited succeeded.
C26_UserOperationFailuresPropagate ==
    (settled.kind \in UserOperations /\ settled.registered) =>
        LET failed == {i \in 1..Len(settled.res) : settled.res[i] = "failed"}
        IN /\ settled.result \in {"ok", "threw"}
           /\ settled.result = "threw" <=> failed # {}
           /\ failed \subseteq {Len(settled.res)}

\* a commit was rejected and the call threw
C26_Witness ==
    /\ settled.kind = "commit" /\ settled.registered
    /\ settled.res = <<"failed">>
    /\ settled.result = "threw"

\* C27: an auto-commit cycle never fails to its invoker: whichever command
\* fails (status, add, commit, the credential configuration's, push) and also
\* when the repository has been unregistered, the cycle ends normally, the
\* failure caught and logged.
C27_AutoCommitNeverThrows ==
    settled.kind = "autoCommit" =>
        /\ settled.result \in {"ok", "caught"}
        /\ (\E i \in 1..Len(settled.res) : settled.res[i] = "failed")
              => settled.result = "caught"

\* a cycle's push found the repository unregistered, and the cycle ended
\* with the error caught
C27_Witness ==
    /\ settled.kind = "autoCommit"
    /\ settled.result = "caught"
    /\ settled.res = <<"ok", "ok", "ok">>
    /\ ~MapHas(repos, settled.folder)

\* the template with every {{date}} token replaced by the timestamp
RECURSIVE Substituted(_, _)
Substituted(template, timestamp) ==
    LET i == IndexFrom(template, DateToken, 1)
    IN IF i = 0 THEN template
       ELSE SubSeq(template, 1, i - 1) \o timestamp
            \o Substituted(SubSeq(template, i + Len(DateToken), Len(template)), timestamp)

\* an auto-commit cycle in slot s has handed its message to `git commit`
AutoCommitting(s) == calls[s].kind = "autoCommit" /\ calls[s].pc = "commit"

\* C28: the message of every auto-commit is the repository's
\* commitMessageTemplate with its {{date}} tokens replaced by the ISO-8601
\* timestamp the cycle took, whatever the template: with no token, with one
\* or with more than one
C28_MessageIsTemplateWithDate ==
    \A s \in Slots :
        AutoCommitting(s) =>
            calls[s].arg = Substituted(configs[calls[s].inst.config].commitMessageTemplate,
                                       calls[s].now)

\* a discard of the file has succeeded
Discarded == settled.kind = "discard" /\ settled.result = "ok"

\* C25: after discard(folderId, path) succeeds, the content of path on disk
\* is its content at HEAD, whatever staged and unstaged changes it had
C25_DiscardRestoresHead ==
    Discarded => blobs.working = blobs.head

\* an addToIgnoreList(r, p) on a registered repository has returned
Added == settled.kind = "addToGitignore" /\ settled.result = "ok"

\* C31: addToIgnoreList(r, p) only appends: the new content is the old
\* content, then one newline if the old content was not empty and did not end
\* in one, then p and one newline, also when p is already listed
C31_AddOnlyAppends ==
    Added =>
        LET old == settled.files
            separator == IF Len(old) > 0 /\ old[Len(old)] # "\n" THEN <<"\n">> ELSE <<>>
        IN IgnoreFileOf(settled) = old \o separator \o settled.arg \o <<"\n">>

\* "x" was added to a file that held "a" without a newline
C31_Witness ==
    /\ Added
    /\ settled.files = <<"a">> /\ settled.arg = <<"x">>
    /\ IgnoreFileOf(settled) = <<"a", "\n", "x", "\n">>

\* the commands push issues, configureCredentials included
PushOps == {"getRemotes", "addConfig", "status", "push", "push -u"}

\* the i-th command of r was awaited and came back as `how`
Came(r, i, how) == i <= Len(r.res) /\ r.res[i] = how

\* in the commands of a view action r (suspended or ended): none without a
\* message, a push only after a commit that succeeded, none after a commit
\* that failed
ViewOrder(r) ==
    /\ r.arg = EmptyString => r.ops = <<>>
    /\ \A i \in 1..Len(r.ops) :
          r.ops[i] \in PushOps =>
              \E j \in 1..(i - 1) : r.ops[j] = "commit" /\ Came(r, j, "ok")
    /\ \A j \in 1..Len(r.ops) :
          r.ops[j] = "commit" /\ Came(r, j, "failed") => Len(r.ops) = j

\* what a view action that ended reported
ViewReports(o) ==
    /\ (\E j \in 1..Len(o.ops) : o.ops[j] = "commit" /\ Came(o, j, "failed"))
          => o.notices = <<"Commit failed">>
    /\ (\E i \in 1..Len(o.ops) : o.ops[i] \in PushOps /\ Came(o, i, "failed"))
          => o.notices = <<"Committed", "Commit succeeded, but push failed">>
    /\ "Commit succeeded, but push failed" \in Range(o.notices)
          => /\ "Commit failed" \notin Range(o.notices)
             /\ \E j \in 1..Len(o.ops) : o.ops[j] = "commit" /\ Came(o, j, "ok")

ViewOrdered ==
    /\ \A s \in Slots : calls[s].kind \in ViewActions => ViewOrder(calls[s])
    /\ settled.kind \in ViewActions => ViewOrder(settled) /\ ViewReports(settled)

\* the view action in slot s goes from its commit to its push in this step
ViewStartsPush(s) ==
    /\ Awaiting(s, ViewActions, "commit")
    /\ calls'[s].kind \in ViewActions
    /\ calls'[s].pc \in {"getRemotes", "pushStatus"}

\* C32: in the view's Commit and Commit all, an empty message issues no
\* stage, commit or push; a push comes only after the action's commit
\* succeeded and only when the active repository's autoPush is true; a failed
\* commit is never followed by a push; a push that fails after the commit is
\* reported as a failed push, not as a failed commit
C32_ViewCommitThenPush ==
    [][/\ ViewOrdered'
       /\ \A s \in Slots :
             ViewStartsPush(s) =>
                 /\ MapHas(repos, calls[s].folder)
                 /\ configs[MapGet(repos, calls[s].folder).config].autoPush]_vars

\* Commit all staged and committed, and its push failed
C32_Witness ==
    /\ settled.kind = "commitAll"
    /\ settled.res = <<"ok", "ok", "ok", "failed">>
    /\ settled.notices = <<"Committed", "Commit succeeded, but push failed">>

\* the registered instances whose config has a positive interval
TimedInstances == {inst \in Registered : configs[inst.config].autoCommitInterval > 0}

\* C33: after any sequence of addRepo, removeRepo and destroy, every armed
\* auto-commit timer belongs to an instance that is in the registry, and
\* there are no more armed timers than registered instances with a positive
\* interval
C33_ArmedTimersAreRegistered ==
    /\ \A t \in timers : \E inst \in Registered : inst.autoCommitTimer = t
    /\ Cardinality(timers) <= Cardinality(TimedInstances)

\* the auto-commit cycle in slot s hands a stage, commit or push to the
\* external process in this step
CycleIssues(s) ==
    /\ calls'[s].kind = "autoCommit"
    /\ calls'[s].pc \in {"add", "commit", "push"}
    /\ calls[s].pc # calls'[s].pc

\* C34: once removeRepo(folderId) or destroy() has returned, no auto-commit
\* cycle issues a stage, commit or push against the repository any more, also
\* when the cycle was suspended at a command when the repository was removed
C34_NoCycleCommandAfterRemoval ==
    [][\A s \in Slots : CycleIssues(s) => MapHas(repos, calls[s].folder)]_vars

\* C35: when destroy() runs while an addRepo call is suspended at its
\* repository check, the addRepo that resumes after it registers no instance
\* and starts no timer, so that the registry is empty and no timer is armed
\* once the pending calls have settled
C35_NoRegistrationAfterDestroy ==
    [][unloaded => repos' = <<>> /\ timers' \subseteq timers]_vars

\* the folderPaths of the persisted repository list
PersistedFolders == {configs[settingsRepos[i]].folderPath : i \in 1..Len(settingsRepos)}

\* an add-repository workflow has ended
WorkflowEnded == settled.kind = "modal"

\* the workflow that ended had registered its folder (its addRepo returned)
WorkflowRegistered == settled.res # <<>> /\ settled.res[1] = "ok"

\* C36: whenever the add-repository workflow ends, in success or in failure
\* at any step, the registered folderIds are the folderPaths of the persisted
\* list, and a workflow that reports failure leaves no instance and no timer
\* it registered for the folder
C36_WorkflowKeepsRegistryAndSettingsInStep ==
    WorkflowEnded =>
        /\ Range(getAllPaths) = PersistedFolders
        /\ settled.result = "threw" /\ WorkflowRegistered
              => ~MapHas(repos, settled.folder)

\* C37: after any sequence of add-repository workflows and settings-tab
\* removals the persisted repository list holds at most one config per
\* folderPath
C37_OneConfigPerFolder ==
    \A i, j \in 1..Len(settingsRepos) :
        configs[settingsRepos[i]].folderPath = configs[settingsRepos[j]].folderPath
            => i = j

\* C38: no two registered instances are bound to the same absolute
\* directory: registering "" and the root sentinel "/" never yields two
\* instances (and two timers) for the vault root, and a repository registered
\* under "/" owns the files one registered under "" owns, which is every file
C38_OneInstancePerDirectory ==
    /\ \A i, j \in 1..Len(repos) :
          repos[i].inst.absolutePath = repos[j].inst.absolutePath => i = j
    /\ settled.kind = "getRepoForFile" /\ MapKeys(repos) = <<Slash>>
          => settled.value = MapGet(repos, Slash)

\* a record getStatus reports as staged, changed or untracked
IsPending(r) == IsStaged(r) \/ IsChanged(r) \/ IsUntracked(r)

\* C39: an auto-commit firing never stages and commits while the status
\* holds a conflicted file: it goes on past its status query exactly when some
\* record is one getStatus reports as staged, changed or untracked
C39_NoAutoCommitDuringConflict ==
    /\ \A s \in Slots :
          calls[s].kind = "autoCommit" /\ Len(calls[s].ops) > 1 =>
              /\ \A r \in Range(calls[s].files) : ~IsConflicted(r)
              /\ \E r \in Range(calls[s].files) : IsPending(r)
    /\ settled.kind = "autoCommit" /\ settled.result = "ok" /\ settled.last = "status"
          => \A r \in Range(settled.files) : ~IsPending(r)

====
